---------------------------- MODULE Spec2Model ----------------------------
(***************************************************************************)
(* A model of TempCalc (src/core/reactor.py, src/core/main.py): the        *)
(* temperature parser, the range-aware correction solver of ThermalReactor *)
(* and the Telegram handlers that keep the active outputs and the range    *)
(* stores.                                                                 *)
(*                                                                         *)
(* Numbers.  A temperature, an offset or a correction is an integer count  *)
(* of eighths of a degree (Unit = 8), so 0.5 is Half = 4 and 0.25 is       *)
(* Quarter = 2.  The heat transfer coefficient exp(-DISTANCE / L) is a     *)
(* rational <<n, d>>.  The linear solve and the influence products are     *)
(* computed exactly, as fractions with an explicit denominator; Python's   *)
(* round() and numpy's round() round halves to even.  Floating-point error *)
(* is not modelled.                                                        *)
(***************************************************************************)
EXTENDS Integers, Sequences, FiniteSets, TLC

\* 0.25 degree (reactor.py:99), 0.5 degree (reactor.py:197, 200, 219, 228) and
\* 1 degree in model units.
Quarter == 2
Half == 2 * Quarter
Unit == 2 * Half

Abs(x) == IF x < 0 THEN -x ELSE x

Max2(a, b) == IF a >= b THEN a ELSE b

Min2(a, b) == IF a <= b THEN a ELSE b

\* ceil(a / b) for b > 0.
CeilDiv(a, b) == -((-a) \div b)

\* Python's round(a / b) for b > 0: the nearest integer, a half going to the
\* even neighbour.
RoundHalfEven(a, b) ==
    LET q == a \div b
        r == a - q * b
    IN  IF 2 * r < b THEN q
        ELSE IF 2 * r > b THEN q + 1
        ELSE IF q % 2 = 0 THEN q ELSE q + 1

\* round(a / b) for any b # 0.
RoundFrac(a, b) == IF b > 0 THEN RoundHalfEven(a, b) ELSE RoundHalfEven(-a, -b)

\* Exact fractions <<n, d>> with d > 0, kept in lowest terms.
RECURSIVE Gcd(_, _)
Gcd(a, b) == IF b = 0 THEN a ELSE Gcd(b, a % b)

Frac(n, d) == LET g == Gcd(Abs(n), d) IN <<n \div g, d \div g>>

FracAdd(a, b) ==
    LET g == Gcd(a[2], b[2])
    IN  Frac(a[1] * (b[2] \div g) + b[1] * (a[2] \div g), a[2] * (b[2] \div g))

FracMul(a, b) ==
    LET x == Frac(a[1], b[2])
        y == Frac(b[1], a[2])
    IN  <<x[1] * y[1], x[2] * y[2]>>

ZoneNames == <<"B", "C", "D">>

ZoneSet == {"B", "C", "D"}

Sum3(v) == v[1] + v[2] + v[3]

(***************************************************************************)
(* The temperature parser.  A text is a sequence of one-character strings. *)
(***************************************************************************)

DigitChars == <<"0", "1", "2", "3", "4", "5", "6", "7", "8", "9">>

IsDigit(c) == \E i \in 1..10 : DigitChars[i] = c

DigitVal(c) == (CHOOSE i \in 1..10 : DigitChars[i] = c) - 1

\* str.split(): the maximal runs of characters other than white space.
RECURSIVE SplitFrom(_, _, _, _)
SplitFrom(str, i, word, acc) ==
    IF i > Len(str)
    THEN IF word = <<>> THEN acc ELSE Append(acc, word)
    ELSE IF str[i] = " "
         THEN SplitFrom(str, i + 1, <<>>,
                        IF word = <<>> THEN acc ELSE Append(acc, word))
         ELSE SplitFrom(str, i + 1, Append(word, str[i]), acc)

split(str) == SplitFrom(str, 1, <<>>, <<>>)

\* input_str.replace(',', '.')
replace_comma(tok) == [i \in 1..Len(tok) |-> IF tok[i] = "," THEN "." ELSE tok[i]]

\* The digits of a sequence of digit characters, as a number.
RECURSIVE DigitsValue(_, _)
DigitsValue(ds, n) ==
    IF n = 0 THEN 0 ELSE 10 * DigitsValue(ds, n - 1) + DigitVal(ds[n])

\* float(tok) for the decimal literals [sign] digits [. digits] and
\* [sign] . digits (exponents, inf, nan and underscores are not modelled): the
\* value in model units, or not ok (ValueError).  The texts of the model hold
\* only decimals that are whole numbers of model units.
float(tok) ==
    LET signed == Len(tok) > 0 /\ tok[1] \in {"+", "-"}
        body == IF signed THEN SubSeq(tok, 2, Len(tok)) ELSE tok
        dots == {i \in 1..Len(body) : body[i] = "."}
        wellFormed ==
            /\ \A i \in 1..Len(body) : IsDigit(body[i]) \/ body[i] = "."
            /\ Cardinality(dots) <= 1
            /\ \E i \in 1..Len(body) : IsDigit(body[i])
        dot == IF dots = {} THEN Len(body) + 1 ELSE CHOOSE i \in dots : TRUE
        whole == SubSeq(body, 1, dot - 1)
        frac == SubSeq(body, dot + 1, Len(body))
        magnitude ==
            (DigitsValue(whole \o frac, Len(whole) + Len(frac)) * Unit)
                \div (10 ^ Len(frac))
    IN  IF ~wellFormed THEN [ok |-> FALSE, value |-> 0]
        ELSE [ok |-> TRUE,
              value |-> IF signed /\ tok[1] = "-" THEN -magnitude ELSE magnitude]

\* parse_temperature(input_str)
parse_temperature(tok) == float(replace_comma(tok))

ParseError(kind, editing_mode) ==
    [ok |-> FALSE, error |-> kind, editing_help |-> editing_mode,
     current_temps |-> <<>>, target_temps |-> <<>>]

\* parse_temperatures(input_str, editing_mode, target_temp); target_temp is
\* <<>> for None and <<t>> for a number.  The error is "format" (an
\* unparsable token; in the editing branch a wrong count as well) or "count",
\* followed by the help text of the editing or of the full format.
four_value_targets(values) == <<values[4], values[4], values[4]>>

six_value_targets_first_only(values) == <<values[4], values[4], values[4]>>

six_value_targets(values) == SubSeq(values, 4, 6)

parse_temperatures(input_str, editing_mode, target_temp) ==
    LET toks == split(input_str)
        parsed == [i \in 1..Len(toks) |-> parse_temperature(toks[i])]
        values == [i \in 1..Len(toks) |-> parsed[i].value]
        allOk == \A i \in 1..Len(toks) : parsed[i].ok
    IN  IF editing_mode /\ target_temp # <<>>
        THEN IF ~allOk \/ Len(toks) # 3
             THEN ParseError("format", editing_mode)
             ELSE [ok |-> TRUE, error |-> "", editing_help |-> editing_mode,
                   current_temps |-> values,
                   target_temps |-> <<target_temp[1], target_temp[1], target_temp[1]>>]
        ELSE IF ~allOk THEN ParseError("format", editing_mode)
             ELSE IF Len(toks) \notin {4, 6} THEN ParseError("count", editing_mode)
             ELSE IF Len(toks) = 4
             THEN [ok |-> TRUE, error |-> "", editing_help |-> editing_mode,
                   current_temps |-> SubSeq(values, 1, 3),
                   target_temps |-> four_value_targets(values)]
             ELSE [ok |-> TRUE, error |-> "", editing_help |-> editing_mode,
                   current_temps |-> SubSeq(values, 1, 3),
                   target_temps |-> six_value_targets(values)]

(***************************************************************************)
(* ThermalReactor: the influence model.                                    *)
(***************************************************************************)

\* The matrix of get_influence_matrix for the coefficient k = <<n, d>>, every
\* entry multiplied by MatScale(k) = d^5.  The symmetric matrix weights the
\* Center's correction at an edge by k, as it weights an edge's at the Center.
MatScale(k) == k[2] ^ 5

get_influence_matrix_symmetric(k) ==
    LET n == k[1]
        d == k[2]
    IN  << << d ^ 5, n * d ^ 4, n ^ 5 >>,
           << n * d ^ 4, d ^ 5, n * d ^ 4 >>,
           << n ^ 5, n * d ^ 4, d ^ 5 >> >>

get_influence_matrix(k) ==
    LET n == k[1]
        d == k[2]
    IN  << << d ^ 5, d ^ 5, n ^ 5 >>,
           << n * d ^ 4, d ^ 5, n * d ^ 4 >>,
           << n ^ 5, d ^ 5, d ^ 5 >> >>

Det3(m) ==
      m[1][1] * (m[2][2] * m[3][3] - m[2][3] * m[3][2])
    - m[1][2] * (m[2][1] * m[3][3] - m[2][3] * m[3][1])
    + m[1][3] * (m[2][1] * m[3][2] - m[2][2] * m[3][1])

ReplaceCol(m, j, v) ==
    [i \in 1..3 |-> [c \in 1..3 |-> IF c = j THEN v[i] ELSE m[i][c]]]

\* The rows of the scaled matrix with their common factors removed (row 2 is
\* d^4 * <<n, d, n>>): rows <<r1, r2, r3>> and the factor each was divided by.
\* Solving with these rows keeps the determinants small.
ReducedRows(k) ==
    LET m == get_influence_matrix(k)
        f == k[2] ^ 4
    IN  [rows |-> << m[1], << m[2][1] \div f, m[2][2] \div f, m[2][3] \div f >>, m[3] >>,
         scale |-> << MatScale(k), MatScale(k) \div f, MatScale(k) >>]

\* np.linalg.solve(influence_matrix, rhs): the exact solution by Cramer's
\* rule, as numerators over one positive denominator; singular when the
\* determinant is zero (LinAlgError).
linalg_solve(k, rhs) ==
    LET rr == ReducedRows(k)
        b == [i \in 1..3 |-> rr.scale[i] * rhs[i]]
        det == Det3(rr.rows)
        sign == IF det < 0 THEN -1 ELSE 1
    IN  IF det = 0
        THEN [ok |-> FALSE, num |-> <<0, 0, 0>>, den |-> 1]
        ELSE [ok |-> TRUE,
              num |-> [j \in 1..3 |-> sign * Det3(ReplaceCol(rr.rows, j, b))],
              den |-> sign * det]


\* calculate_temperature_changes with the product taken the other way round,
\* np.dot(corrections, influence_matrix): zone i's change weights zone j's
\* correction by row j, column i.
calculate_temperature_changes_transposed(k, initial_temps, corr) ==
    LET m == get_influence_matrix(k)
    IN  [base |-> initial_temps,
         num |-> [i \in 1..3 |->
                    m[1][i] * corr.num[1]
                    + m[2][i] * corr.num[2]
                    + m[3][i] * corr.num[3]],
         den |-> [i \in 1..3 |-> MatScale(k) * corr.den]]

\* calculate_temperature_changes: initial_temps + np.dot(influence_matrix,
\* corrections) for corrections num / den (den > 0).  Zone i's final
\* temperature is base[i] + num[i] / den[i], with den[i] > 0.
calculate_temperature_changes(k, initial_temps, corr) ==
    LET rr == ReducedRows(k)
    IN  [base |-> initial_temps,
         num |-> [i \in 1..3 |->
                    rr.rows[i][1] * corr.num[1]
                    + rr.rows[i][2] * corr.num[2]
                    + rr.rows[i][3] * corr.num[3]],
         den |-> [i \in 1..3 |-> rr.scale[i] * corr.den]]

(***************************************************************************)
(* ThermalReactor: the range-aware solve (Strategy B).                     *)
(***************************************************************************)

\* A range dictionary maps some of the zones to a pair of offsets; the code
\* takes max() and min() of the pair, whatever its order.
NoRanges == [z \in {} |-> <<0, 0>>]

RangeUpper(range) == Max2(range[1], range[2])

RangeLower(range) == Min2(range[1], range[2])

\* steps = np.arange(lower, upper + 0.5, 0.5): lower, lower + 0.5, ... below
\* upper + 0.5, ceil((upper + 0.5 - lower) / 0.5) of them.
arange_steps(lower, upper) ==
    [i \in 1..CeilDiv(upper + Half - lower, Half) |-> lower + (i - 1) * Half]

\* steps[np.abs(steps - current).argmin()]: the first of the nearest steps.
nearest_step(steps, current) ==
    LET best == CHOOSE i \in 1..Len(steps) :
                    /\ \A j \in 1..Len(steps) :
                           Abs(steps[i] - current) <= Abs(steps[j] - current)
                    /\ \A j \in 1..(i - 1) :
                           Abs(steps[j] - current) > Abs(steps[i] - current)
    IN  steps[best]

\* The clamp / snap rule of calculate_corrections for one zone.
clamp_or_snap(current, target, range) ==
    LET upper == target + RangeUpper(range)
        lower == target + RangeLower(range)
    IN  IF current > upper THEN upper
        ELSE IF current < lower THEN lower
        ELSE nearest_step(arange_steps(lower, upper), current)

\* 1. the central zone: c_target.
center_target(initial_temps, TARGET_TEMPS, ranges) ==
    clamp_or_snap(initial_temps[2], TARGET_TEMPS[2], ranges["C"])

\* initial_c_correction = round((c_target - current_c) * 2) / 2; the code
\* computes it and never reads it.
initial_c_correction(initial_temps, TARGET_TEMPS, ranges) ==
    Half * RoundHalfEven(
        center_target(initial_temps, TARGET_TEMPS, ranges) - initial_temps[2],
        Half)

\* 2. the loop over the zones: the targets vector.
edge_target_after_center(idx, initial_temps, TARGET_TEMPS, ranges) ==
    clamp_or_snap(
        initial_temps[idx]
            + initial_c_correction(initial_temps, TARGET_TEMPS, ranges),
        TARGET_TEMPS[idx], ranges[ZoneNames[idx]])

edge_target(idx, initial_temps, TARGET_TEMPS, ranges) ==
    clamp_or_snap(initial_temps[idx], TARGET_TEMPS[idx], ranges[ZoneNames[idx]])

desired_targets(initial_temps, TARGET_TEMPS, ranges) ==
    [idx \in 1..3 |->
        IF idx = 2
        THEN center_target(initial_temps, TARGET_TEMPS, ranges)
        ELSE edge_target(idx, initial_temps, TARGET_TEMPS, ranges)]

\* quantize cutting each correction down to a multiple of 0.5 (floor)
\* in place of rounding it.
quantize_down(sol) ==
    [num |-> [j \in 1..3 |-> Half * (sol.num[j] \div (sol.den * Half))],
     den |-> 1]

\* corrections = np.round(corrections * 2) / 2, for the exact solution
\* num / den in model units: a whole number of halves.
quantize(sol) ==
    [num |-> [j \in 1..3 |-> Half * RoundFrac(sol.num[j], sol.den * Half)],
     den |-> 1]

\* calculate_corrections with a non-empty self.user_ranges.  A zone missing
\* from it is a KeyError and a singular matrix a LinAlgError; both are
\* re-raised as ValueError.
calculate_corrections(k, initial_temps, TARGET_TEMPS, ranges) ==
    IF ~(ZoneSet \subseteq DOMAIN ranges)
    THEN [ok |-> FALSE, error |-> "KeyError", targets |-> <<0, 0, 0>>,
          exact |-> [num |-> <<0, 0, 0>>, den |-> 1],
          corrections |-> [num |-> <<0, 0, 0>>, den |-> 1]]
    ELSE LET targets == desired_targets(initial_temps, TARGET_TEMPS, ranges)
             sol == linalg_solve(k, [i \in 1..3 |-> targets[i] - initial_temps[i]])
         IN  IF ~sol.ok
             THEN [ok |-> FALSE, error |-> "LinAlgError", targets |-> targets,
                   exact |-> [num |-> <<0, 0, 0>>, den |-> 1],
                   corrections |-> [num |-> <<0, 0, 0>>, den |-> 1]]
             ELSE [ok |-> TRUE, error |-> "", targets |-> targets,
                   exact |-> [num |-> sol.num, den |-> sol.den],
                   corrections |-> quantize(sol)]


(***************************************************************************)
(* ThermalReactor: the object and optimize_temperatures.                   *)
(***************************************************************************)

\* DEFAULT_RANGES = '2 0 1 -1 0 -1': B_min B_max C_min C_max D_min D_max.
DEFAULT_RANGES == <<2 * Unit, 0, Unit, -Unit, 0, -Unit>>

DefaultRangesDict ==
    [z \in ZoneSet |->
        IF z = "B" THEN <<DEFAULT_RANGES[1], DEFAULT_RANGES[2]>>
        ELSE IF z = "C" THEN <<DEFAULT_RANGES[3], DEFAULT_RANGES[4]>>
        ELSE <<DEFAULT_RANGES[5], DEFAULT_RANGES[6]>>]

ValidModes == {"pc", "bprt"}

\* ThermalReactor taking every mode other than 'pc' for 'bprt', as the
\* else branches of __init__ would without the check of the mode.
ThermalReactor_defaulting_to_bprt(mode, ranges_dict, env) ==
    [ok |-> TRUE, mode |-> IF mode = "pc" THEN "pc" ELSE "bprt",
     heat_transfer_coef |-> IF mode = "pc" THEN env.pc ELSE env.bprt,
     MAX_DEVIATION |-> IF mode = "pc" THEN env.pc_max_deviation
                       ELSE env.bprt_max_deviation,
     initial_temps |-> <<>>, TARGET_TEMPS |-> <<>>,
     user_ranges |-> NoRanges, user_ranges_dict |-> ranges_dict]

\* ThermalReactor(mode, user_ranges_dict): None for a mode that is neither
\* 'pc' nor 'bprt' (ValueError), else the object.  env gives the heat
\* transfer coefficient exp(-DISTANCE / <mode>_CHARACTERISTIC_LENGTH) and
\* the <mode>_MAX_DEVIATION of each mode.  A user_ranges_dict of None is the empty dictionary here: the
\* code only tests it for truth.
ThermalReactor(mode, ranges_dict, env) ==
    IF mode \notin ValidModes
    THEN [ok |-> FALSE, mode |-> mode, heat_transfer_coef |-> <<1, 1>>,
          MAX_DEVIATION |-> 0,
          initial_temps |-> <<>>, TARGET_TEMPS |-> <<>>,
          user_ranges |-> NoRanges, user_ranges_dict |-> ranges_dict]
    ELSE [ok |-> TRUE, mode |-> mode,
          heat_transfer_coef |-> IF mode = "pc" THEN env.pc ELSE env.bprt,
          MAX_DEVIATION |-> IF mode = "pc" THEN env.pc_max_deviation
                            ELSE env.bprt_max_deviation,
          initial_temps |-> <<>>, TARGET_TEMPS |-> <<>>,
          user_ranges |-> NoRanges, user_ranges_dict |-> ranges_dict]

\* set_temperatures leaving self.user_ranges as __init__ set it (None, the
\* empty range here).
set_temperatures_leaving_ranges(self, current_temps, target_temps, user_id) ==
    [self EXCEPT
        !.initial_temps = current_temps,
        !.TARGET_TEMPS = target_temps,
        !.user_ranges = NoRanges]

\* reactor.set_temperatures(current_temps, target_temps, user_id).
set_temperatures(self, current_temps, target_temps, user_id) ==
    [self EXCEPT
        !.initial_temps = current_temps,
        !.TARGET_TEMPS = target_temps,
        !.user_ranges =
            IF user_id \in DOMAIN self.user_ranges_dict
            THEN self.user_ranges_dict[user_id]
            ELSE DefaultRangesDict]

\* objective_function(corrections) for corrections num / den: the sum over
\* the zones of (final_temps - TARGET_TEMPS) ** 2, in square degrees.
objective_function(self, corrections) ==
    LET f == calculate_temperature_changes(self.heat_transfer_coef,
                                           self.initial_temps, corrections)
        deviation(i) ==
            Frac((f.base[i] - self.TARGET_TEMPS[i]) * f.den[i] + f.num[i],
                 f.den[i] * Unit)
        square(i) == FracMul(deviation(i), deviation(i))
    IN  FracAdd(FracAdd(square(1), square(2)), square(3))

\* minimize(objective_function, zeros(3), method='SLSQP') of Strategy A: the
\* objective of reactor.py is the sum of the squared deviations, whose
\* minimum is the solution of the linear system; for the singular matrix (all
\* coefficients 1) it is the least-norm minimiser, every correction a ninth
\* of the summed deviations.  The result is exact here (not to ftol).
minimize(self) ==
    LET rhs == [i \in 1..3 |-> self.TARGET_TEMPS[i] - self.initial_temps[i]]
        sol == linalg_solve(self.heat_transfer_coef, rhs)
    IN  IF sol.ok THEN [num |-> sol.num, den |-> sol.den]
        ELSE [num |-> [j \in 1..3 |-> Sum3(rhs)], den |-> 9]

NoResult ==
    [status |-> "none", strategy |-> "", error |-> "", targets |-> <<0, 0, 0>>,
     corrections |-> [num |-> <<0, 0, 0>>, den |-> 1],
     final_temps |-> [base |-> <<0, 0, 0>>, num |-> <<0, 0, 0>>,
                      den |-> <<1, 1, 1>>]]

ErrorResult(strategy, error) ==
    [NoResult EXCEPT !.status = "error", !.strategy = strategy, !.error = error]

\* optimize_temperatures choosing the strategy by whether the caller passed
\* any ranges dictionary, not by the range set_temperatures put in effect.
optimize_temperatures_by_dict(self, success) ==
    IF DOMAIN self.user_ranges_dict # {}
    THEN LET cc == calculate_corrections(self.heat_transfer_coef,
                       self.initial_temps, self.TARGET_TEMPS, self.user_ranges)
         IN  IF ~cc.ok THEN ErrorResult("B", cc.error)
             ELSE [status |-> "ok", strategy |-> "B", error |-> "",
                   targets |-> cc.targets, corrections |-> cc.corrections,
                   final_temps |-> calculate_temperature_changes(
                                       self.heat_transfer_coef,
                                       self.initial_temps, cc.corrections)]
    ELSE IF ~success THEN ErrorResult("A", "not converged")
         ELSE LET c == minimize(self)
              IN  [status |-> "ok", strategy |-> "A", error |-> "",
                   targets |-> self.TARGET_TEMPS, corrections |-> c,
                   final_temps |-> calculate_temperature_changes(
                                       self.heat_transfer_coef,
                                       self.initial_temps, c)]

\* reactor.optimize_temperatures(); success is result.success of the
\* optimizer, read only by Strategy A.
optimize_temperatures(self, success) ==
    IF self.user_ranges # NoRanges
    THEN LET cc == calculate_corrections(self.heat_transfer_coef,
                       self.initial_temps, self.TARGET_TEMPS, self.user_ranges)
         IN  IF ~cc.ok THEN ErrorResult("B", cc.error)
             ELSE [status |-> "ok", strategy |-> "B", error |-> "",
                   targets |-> cc.targets, corrections |-> cc.corrections,
                   final_temps |-> calculate_temperature_changes(
                                       self.heat_transfer_coef,
                                       self.initial_temps, cc.corrections)]
    ELSE IF ~success THEN ErrorResult("A", "not converged")
         ELSE LET c == minimize(self)
              IN  [status |-> "ok", strategy |-> "A", error |-> "",
                   targets |-> self.TARGET_TEMPS, corrections |-> c,
                   final_temps |-> calculate_temperature_changes(
                                       self.heat_transfer_coef,
                                       self.initial_temps, c)]


(***************************************************************************)
(* State.                                                                  *)
(***************************************************************************)
VARIABLES
    env,                      \* the configuration read at import (.env, reactors.json)
    active_outputs,           \* main.py: {reactor_id: output}
    user_ranges,              \* main.py: {user_id: {zone: (min, max)}}
    reactor_specific_ranges,  \* main.py: {user_id: {reactor_id: {zone: (min, max)}}}
    user_data,                \* context.user_data of each user
    buttons,                  \* the inline buttons each user has been sent
    reply,                    \* what the last handler sent or raised
    steps,                    \* handlers run so far
    args,                     \* the arguments of a direct call
    pc,                       \* the position of a direct call
    reactor,                  \* the ThermalReactor of a direct call
    result                    \* what a direct call returned

vars == <<env, active_outputs, user_ranges, reactor_specific_ranges, user_data,
          buttons, reply, steps, args, pc, reactor, result>>

botVars == <<active_outputs, user_ranges, reactor_specific_ranges, user_data,
             buttons, reply, steps>>

EmptyDict == [x \in {} |-> 0]

\* The heat transfer coefficients of the two modes: a positive DISTANCE with
\* a shorter BPRT_CHARACTERISTIC_LENGTH (1/2 and 1/3), and DISTANCE = 0 (both
\* exp(0) = 1); PC_MAX_DEVIATION is 0.5 degrees and BPRT_MAX_DEVIATION 1.
CoefConfigs ==
    { [pc |-> <<1, 2>>, bprt |-> <<1, 3>>,
       pc_max_deviation |-> Half, bprt_max_deviation |-> Unit],
      [pc |-> <<1, 1>>, bprt |-> <<1, 1>>,
       pc_max_deviation |-> Half, bprt_max_deviation |-> Unit] }

(***************************************************************************)
(* SpecSolve: ThermalReactor called directly, as handle_temperatures calls *)
(* it (reactor.py:339-342), on inputs drawn from bounded sets.             *)
(***************************************************************************)

\* The base target temperature, 1000 degrees.
BaseTarget == 1000 * Unit

\* Current temperatures: each zone's target plus a multiple of DevStep
\* (0.375 degrees), up to MaxDevSteps steps either way.
DevStep == 3
MaxDevSteps == 2

Deviations == {DevStep * j : j \in (-MaxDevSteps)..MaxDevSteps}

SolveTargets == { <<BaseTarget, BaseTarget, BaseTarget>>,
                  <<BaseTarget + 5 * Unit, BaseTarget, BaseTarget - Half>> }

\* The ranges tried for each zone, as (min, max): the band of the defaults,
\* and a band of 0.375 degrees, whose width is no multiple of 0.5.
SolveZoneRanges(z) ==
    IF z = "B" THEN { <<0, 2 * Unit>>, <<0, 3>> }
    ELSE IF z = "C" THEN { <<-Unit, Unit>>, <<0, 3>> }
    ELSE { <<-Unit, 0>>, <<0, 3>> }

FullRanges ==
    { [z \in ZoneSet |-> IF z = "B" THEN b ELSE IF z = "C" THEN c ELSE d] :
        b \in SolveZoneRanges("B"), c \in SolveZoneRanges("C"),
        d \in SolveZoneRanges("D") }

\* user_ranges_dict as a caller may pass it: None or {} (no entry), an entry
\* for the calling user (complete, with a zone missing, or empty), or an
\* entry for another user only.
SolveRangeDicts ==
    {EmptyDict}
    \cup { [u \in {1} |-> r] : r \in FullRanges }
    \cup { [u \in {1} |-> [z \in {"C"} |-> <<-Unit, Unit>>]],
           [u \in {1} |-> NoRanges],
           [u \in {2} |-> DefaultRangesDict] }

SolveModes == {"pc", "bprt", "manual"}

SolveArgs ==
    [mode : SolveModes, user_ranges_dict : SolveRangeDicts,
     target_temps : SolveTargets, dev : [1..3 -> Deviations]]

NoReactor == [ok |-> FALSE]

NoReply == [kind |-> "none"]

InitSolve ==
    /\ env \in CoefConfigs
    /\ args \in SolveArgs
    /\ pc = "start"
    /\ reactor = NoReactor
    /\ result = NoResult
    /\ active_outputs = EmptyDict
    /\ user_ranges = EmptyDict
    /\ reactor_specific_ranges = EmptyDict
    /\ user_data = EmptyDict
    /\ buttons = EmptyDict
    /\ reply = NoReply
    /\ steps = 0

CurrentOf(a) == [i \in 1..3 |-> a.target_temps[i] + a.dev[i]]

\* reactor = ThermalReactor(mode=mode, user_ranges_dict=ranges_dict)
SolveConstruct ==
    /\ pc = "start"
    /\ LET r == ThermalReactor(args.mode, args.user_ranges_dict, env)
       IN  /\ reactor' = r
           /\ IF r.ok
              THEN pc' = "constructed" /\ UNCHANGED result
              ELSE pc' = "done" /\ result' = ErrorResult("", "mode")
    /\ UNCHANGED <<env, args, botVars>>

\* reactor.set_temperatures(current_temps, target_temps, user_id)
SolveSetTemperatures ==
    /\ pc = "constructed"
    /\ reactor' = set_temperatures(reactor, CurrentOf(args), args.target_temps, 1)
    /\ pc' = "set"
    /\ UNCHANGED <<env, args, result, botVars>>

\* corrections, final_temps = reactor.optimize_temperatures()
SolveOptimize ==
    /\ pc = "set"
    /\ \E success \in BOOLEAN :
           result' = optimize_temperatures(reactor, success)
    /\ pc' = "done"
    /\ UNCHANGED <<env, args, reactor, botVars>>

NextSolve == SolveConstruct \/ SolveSetTemperatures \/ SolveOptimize

SpecSolve == InitSolve /\ [][NextSolve]_vars


(***************************************************************************)
(* main.py: the reactor database and the stores.                           *)
(***************************************************************************)

\* Python dictionaries as functions on their keys.
Put(d, k, v) == [x \in (DOMAIN d) \cup {k} |-> IF x = k THEN v ELSE d[x]]

Del(d, k) == [x \in (DOMAIN d) \ {k} |-> d[x]]

Has(d, k) == k \in DOMAIN d

\* d restricted to the keys `keys`: what a handler restores after
\* context.user_data.clear().
Keep(d, keys) == [x \in (DOMAIN d) \cap keys |-> d[x]]

\* str.strip()
RECURSIVE strip(_)
strip(str) ==
    IF str = <<>> THEN str
    ELSE IF str[1] = " " THEN strip(Tail(str))
    ELSE IF str[Len(str)] = " " THEN strip(SubSeq(str, 1, Len(str) - 1))
    ELSE str

\* is_valid_format: the digit patterns YY-Y, YYY, Y-Y and YY; the letter
\* patterns (TM-N, TM-V and their spellings) name no reactor of the model's
\* database and are left out.
is_valid_format(number) ==
    LET d(i) == IsDigit(number[i])
    IN  \/ Len(number) = 4 /\ d(1) /\ d(2) /\ number[3] = "-" /\ d(4)
        \/ Len(number) = 3 /\ d(1) /\ d(2) /\ d(3)
        \/ Len(number) = 3 /\ d(1) /\ number[2] = "-" /\ d(3)
        \/ Len(number) = 2 /\ d(1) /\ d(2)

\* assets/reactors.json: each reactor's id, its id as typed, the alternative
\* numbers and the mode.  The mode of reactor 2-1 is read from the file: a
\* recognised mode or, for a file with a mistake, another string.
ReactorIds == {"1-1", "2-1"}

ReactorsDb(mode2) ==
    [id \in ReactorIds |->
        IF id = "1-1"
        THEN [text |-> <<"1", "-", "1">>, alt |-> { <<"1", "1">> }, mode |-> "pc"]
        ELSE [text |-> <<"2", "-", "1">>, alt |-> { <<"2", "1">> }, mode |-> mode2]]

\* The id of the reactor a typed number names, if any.
DbMatches(db, number) ==
    {id \in DOMAIN db : db[id].text = number \/ number \in db[id].alt}

\* validate_reactor_number: True, or ValueError (here FALSE) for an empty
\* number, a number of no valid format or one the database does not hold.
validate_reactor_number(db, number) ==
    /\ number # <<>>
    /\ is_valid_format(strip(number))
    /\ DbMatches(db, strip(number)) # {}

\* get_reactor_id, for a number that passed validate_reactor_number.
get_reactor_id(db, number) == CHOOSE id \in DbMatches(db, strip(number)) : TRUE

\* get_reactor_mode
get_reactor_mode(db, id) == db[id].mode

\* The working range of a computation for (user_id, reactor_id), as
\* handle_temperatures resolves it, and the name of its source.
resolve_ranges_global_first(user_id, reactor_id, urd, rsrd) ==
    IF Has(urd, user_id) /\ urd[user_id] # NoRanges
    THEN [source |-> "global", ranges |-> urd[user_id]]
    ELSE IF Has(rsrd, user_id) /\ Has(rsrd[user_id], reactor_id)
    THEN [source |-> "reactor", ranges |-> rsrd[user_id][reactor_id]]
    ELSE [source |-> "default", ranges |-> DefaultRangesDict]

resolve_ranges(user_id, reactor_id, urd, rsrd) ==
    IF Has(rsrd, user_id) /\ Has(rsrd[user_id], reactor_id)
    THEN [source |-> "reactor", ranges |-> rsrd[user_id][reactor_id]]
    ELSE IF Has(urd, user_id) /\ urd[user_id] # NoRanges
    THEN [source |-> "global", ranges |-> urd[user_id]]
    ELSE [source |-> "default", ranges |-> DefaultRangesDict]

\* custom_round with the threshold test written abs(value) <= 0.25.
custom_round_inclusive(num, den) ==
    IF Abs(num) <= Quarter * den
    THEN [label |-> "none", halves |-> 0]
    ELSE LET integer_part == RoundHalfEven(num, den * Unit)
             half_rounded == RoundHalfEven(num, den * Half)
         IN  IF Abs(num - integer_part * Unit * den)
                    < Abs(num - half_rounded * Half * den)
             THEN [label |-> "number", halves |-> 2 * integer_part]
             ELSE [label |-> "number", halves |-> half_rounded]

\* custom_round with half_rounded = floor(value * 2 + 0.5) / 2, which rounds
\* halves up instead of to even.
custom_round_half_up(num, den) ==
    IF Abs(num) < Quarter * den
    THEN [label |-> "none", halves |-> 0]
    ELSE LET integer_part == RoundHalfEven(num, den * Unit)
             half_rounded == (2 * num + Half * den) \div (2 * Half * den)
         IN  IF Abs(num - integer_part * Unit * den)
                    < Abs(num - half_rounded * Half * den)
             THEN [label |-> "number", halves |-> 2 * integer_part]
             ELSE [label |-> "number", halves |-> half_rounded]

\* custom_round(value) for value = num / den, den > 0: "none" for "не
\* корректировать", else the number printed, in halves of a degree.
custom_round(num, den) ==
    IF Abs(num) < Quarter * den
    THEN [label |-> "none", halves |-> 0]
    ELSE LET integer_part == RoundHalfEven(num, den * Unit)
             half_rounded == RoundHalfEven(num, den * Half)
         IN  IF Abs(num - integer_part * Unit * den)
                    < Abs(num - half_rounded * Half * den)
             THEN [label |-> "number", halves |-> 2 * integer_part]
             ELSE [label |-> "number", halves |-> half_rounded]

\* The text of six numbers as three ranges; process_all_ranges and the
\* reactor-range entry of handle_message parse it the same way.  Not ok is
\* ValueError: a token float() rejects, or a count other than six.
parse_six_ranges(text) ==
    LET toks == split(strip(text))
        parsed == [i \in 1..Len(toks) |-> parse_temperature(toks[i])]
        v == [i \in 1..Len(toks) |-> parsed[i].value]
    IN  IF (\A i \in 1..Len(toks) : parsed[i].ok) /\ Len(toks) = 6
        THEN [ok |-> TRUE,
              ranges |-> [z \in ZoneSet |->
                             IF z = "B" THEN <<v[1], v[2]>>
                             ELSE IF z = "C" THEN <<v[3], v[4]>>
                             ELSE <<v[5], v[6]>>]]
        ELSE [ok |-> FALSE, ranges |-> NoRanges]

\* parse_range(input_str)
parse_range(text) ==
    LET toks == split(strip(text))
        parsed == [i \in 1..Len(toks) |-> parse_temperature(toks[i])]
    IN  IF Len(toks) = 2 /\ parsed[1].ok /\ parsed[2].ok
        THEN [ok |-> TRUE, range |-> <<parsed[1].value, parsed[2].value>>]
        ELSE [ok |-> FALSE, range |-> <<0, 0>>]

\* Callback data: f"{action}_{arg}".
Button(action, arg) == [action |-> action, arg |-> arg]

\* show_ranges(update, context): the user's entry of user_ranges is created
\* from the defaults if absent; the message reads the three zones (KeyError
\* if one is missing); the keyboard holds the zone buttons and one button
\* for each reactor with ranges of its own.
show_ranges(user_id, urd, rsrd) ==
    LET urd1 == IF Has(urd, user_id) THEN urd
                ELSE Put(urd, user_id, DefaultRangesDict)
    IN  [user_ranges |-> urd1,
         ok |-> ZoneSet \subseteq DOMAIN urd1[user_id],
         keyboard |->
            { Button("range", z) : z \in ZoneSet \cup {"all"} }
            \cup (IF Has(rsrd, user_id)
                  THEN { Button("show_reactor_ranges", r) : r \in DOMAIN rsrd[user_id] }
                  ELSE {})]

\* The key of active_outputs for reactor_id None.
None == "None"

\* context.user_data.get(key)
Get(ud, key) == IF Has(ud, key) THEN ud[key] ELSE None

\* The stored output of a successful computation.  The message is kept as
\* the values it prints.
OutputEntry(reactor_id, parsed, res, out, mode) ==
    [message |->
        [reactor_id |-> reactor_id,
         ranges_info |-> res.source,
         ranges |-> res.ranges,
         corrections |->
            [i \in 1..3 |-> custom_round(out.corrections.num[i],
                                         out.corrections.den)]],
     temps |-> [current |-> parsed.current_temps,
                target_temps |-> parsed.target_temps],
     corrections |-> out.corrections,
     final_temps |-> out.final_temps,
     mode |-> mode]

\* store_output with the output stored before the result is looked at.
store_output_before_check(ud, editing_mode, reactor_id, ao, parsed, res, mode, out) ==
    [ok |-> out.status = "ok", error |-> out.error, user_data |-> ud,
     active_outputs |->
         Put(ao, reactor_id, OutputEntry(reactor_id, parsed, res, out, mode)),
     keyboard |-> {}]

\* store_output assigning a new dictionary that holds the one output,
\* active_outputs = {reactor_id: ...}, instead of setting the key.
store_output_replacing_store(ud, editing_mode, reactor_id, ao, parsed, res, mode, out) ==
    IF out.status # "ok"
    THEN [ok |-> FALSE, error |-> out.error, user_data |-> ud,
          active_outputs |-> ao, keyboard |-> {}]
    ELSE [ok |-> TRUE, error |-> "",
          user_data |-> IF Has(ud, "state") /\ ~editing_mode
                        THEN Del(ud, "state") ELSE ud,
          active_outputs |->
              Put(EmptyDict, reactor_id,
                  OutputEntry(reactor_id, parsed, res, out, mode)),
          keyboard |-> IF reactor_id = None THEN {}
                       ELSE {Button("finish", reactor_id),
                             Button("edit", reactor_id)}]

\* The end of handle_temperatures, from the result `out` of
\* reactor.optimize_temperatures() on: the output is stored, the reply sent
\* and, unless editing, the state deleted.
store_output(ud, editing_mode, reactor_id, ao, parsed, res, mode, out) ==
    IF out.status # "ok"
    THEN [ok |-> FALSE, error |-> out.error, user_data |-> ud,
          active_outputs |-> ao, keyboard |-> {}]
    ELSE [ok |-> TRUE, error |-> "",
          user_data |-> IF Has(ud, "state") /\ ~editing_mode
                        THEN Del(ud, "state") ELSE ud,
          active_outputs |->
              Put(ao, reactor_id, OutputEntry(reactor_id, parsed, res, out, mode)),
          keyboard |-> IF reactor_id = None THEN {}
                       ELSE {Button("finish", reactor_id),
                             Button("edit", reactor_id)}]

\* compute_output keeping one ThermalReactor per reactor between requests:
\* a request for a reactor that has an output computes with the ranges of
\* that output's request, whatever ranges it resolves and prints.
compute_output_cached_reactor(user_id, ud, reactor_id, ao, urd, rsrd, coefs, success, parsed) ==
    LET editing_mode == Has(ud, "editing_reactor")
        ud1 == IF editing_mode /\ ~Has(ud, "mode") /\ Has(ao, reactor_id)
               THEN Put(ud, "mode", ao[reactor_id].mode)
               ELSE ud
        mode == ud1["mode"]
        res == resolve_ranges(user_id, reactor_id, urd, rsrd)
        cached == IF Has(ao, reactor_id) THEN ao[reactor_id].message.ranges
                  ELSE res.ranges
        r0 == ThermalReactor(mode, [x \in {user_id} |-> cached], coefs)
        failed(error, d) ==
            [ok |-> FALSE, error |-> error, user_data |-> d,
             active_outputs |-> ao, keyboard |-> {}]
    IN  IF ~parsed.ok THEN failed(parsed.error, ud)
        ELSE IF ~Has(ud1, "mode") THEN failed("no reactor chosen", ud1)
        ELSE IF ~r0.ok THEN failed("mode", ud1)
        ELSE store_output(ud1, editing_mode, reactor_id, ao, parsed, res, mode,
                 optimize_temperatures(
                     set_temperatures(r0, parsed.current_temps,
                                      parsed.target_temps, user_id),
                     success))

\* handle_temperatures from the parsed temperatures on.
compute_output(user_id, ud, reactor_id, ao, urd, rsrd, coefs, success, parsed) ==
    LET editing_mode == Has(ud, "editing_reactor")
        ud1 == IF editing_mode /\ ~Has(ud, "mode") /\ Has(ao, reactor_id)
               THEN Put(ud, "mode", ao[reactor_id].mode)
               ELSE ud
        mode == ud1["mode"]
        res == resolve_ranges(user_id, reactor_id, urd, rsrd)
        r0 == ThermalReactor(mode, [x \in {user_id} |-> res.ranges], coefs)
        failed(error, d) ==
            [ok |-> FALSE, error |-> error, user_data |-> d,
             active_outputs |-> ao, keyboard |-> {}]
    IN  IF ~parsed.ok THEN failed(parsed.error, ud)
        ELSE IF ~Has(ud1, "mode") THEN failed("no reactor chosen", ud1)
        ELSE IF ~r0.ok THEN failed("mode", ud1)
        ELSE store_output(ud1, editing_mode, reactor_id, ao, parsed, res, mode,
                 optimize_temperatures(
                     set_temperatures(r0, parsed.current_temps,
                                      parsed.target_temps, user_id),
                     success))

\* handle_temperatures(update, context, reactor_id, active_outputs,
\* user_ranges_dict, reactor_specific_ranges_dict) for the message `text` of
\* user_id, whose context.user_data is ud.  Not ok is ValueError; user_data
\* and active_outputs are the dictionaries as the call leaves them.
handle_temperatures(user_id, text, ud, reactor_id, ao, urd, rsrd, coefs, success) ==
    compute_output(user_id, ud, reactor_id, ao, urd, rsrd, coefs, success,
                   parse_temperatures(
                       text, Has(ud, "editing_reactor"),
                       IF Has(ud, "editing_reactor") /\ Has(ao, reactor_id)
                       THEN <<ao[reactor_id].temps.target_temps[1]>>
                       ELSE <<>>))

(***************************************************************************)
(* SpecParse: parse_temperatures called directly on texts of up to         *)
(* MaxTokens tokens.                                                       *)
(***************************************************************************)

MaxTokens == 7

NumberTokens ==
    << <<"1", "0", "0", "8", ",", "5">>,
       <<"1", "0", "0", "3", ".", "7", "5">>,
       <<"1", "0", "0", "1", ".", "2", "5">>,
       <<"1", "0", "4", "0", ".", "0">>,
       <<"1", "0", "0", "0">>,
       <<"9", "9", "9", ",", "5">> >>

BadTokens == << <<"1", "0", "x">>, <<"1", ",", "2", ",", "3">> >>

NumberToken(i) == NumberTokens[((i - 1) % Len(NumberTokens)) + 1]

\* The text of n tokens, token `bad` (if any) being BadTokens[kind], the
\* tokens separated by one space, or padded: by two, with one before and one
\* after.
RECURSIVE JoinTokens(_, _, _, _)
JoinTokens(n, bad, kind, padded) ==
    IF n = 0 THEN IF padded THEN <<" ">> ELSE <<>>
    ELSE LET tok == IF n = bad THEN BadTokens[kind] ELSE NumberToken(n)
             before == JoinTokens(n - 1, bad, kind, padded)
         IN  IF n = 1 THEN before \o tok \o (IF padded THEN <<" ">> ELSE <<>>)
             ELSE IF padded
             THEN SubSeq(before, 1, Len(before) - 1) \o <<" ", " ">> \o tok \o <<" ">>
             ELSE before \o <<" ">> \o tok

ParseTexts ==
    { JoinTokens(n, 0, 1, padded) : n \in 0..MaxTokens, padded \in BOOLEAN }
    \cup UNION { { JoinTokens(n, bad, kind, padded) :
                     bad \in 1..n, kind \in 1..Len(BadTokens), padded \in BOOLEAN } :
                 n \in 1..MaxTokens }

ParseArgs ==
    [input_str : ParseTexts, editing_mode : BOOLEAN,
     target_temp : {<<>>, <<0>>, <<BaseTarget>>}]

InitParse ==
    /\ env \in CoefConfigs
    /\ args \in ParseArgs
    /\ pc = "start"
    /\ reactor = NoReactor
    /\ result = NoResult
    /\ active_outputs = EmptyDict
    /\ user_ranges = EmptyDict
    /\ reactor_specific_ranges = EmptyDict
    /\ user_data = EmptyDict
    /\ buttons = EmptyDict
    /\ reply = NoReply
    /\ steps = 0

ParseCall ==
    /\ pc = "start"
    /\ result' = parse_temperatures(args.input_str, args.editing_mode,
                                    args.target_temp)
    /\ pc' = "done"
    /\ UNCHANGED <<env, args, reactor, botVars>>

NextParse == ParseCall

SpecParse == InitParse /\ [][NextParse]_vars

(***************************************************************************)
(* SpecRound: custom_round called directly on the values num / den eighths *)
(* of a degree, as handle_temperatures calls it on each correction         *)
(* (reactor.py:365-366).                                                   *)
(***************************************************************************)

MaxRoundNum == 48

\* With den = 5 a value is a multiple of 0.025 degrees: 12 / 5 eighths is
\* 0.3 and -44 / 5 eighths is -1.1.
RoundDens == {1, 5}

RoundArgs == [num : -MaxRoundNum..MaxRoundNum, den : RoundDens]

InitRound ==
    /\ env \in CoefConfigs
    /\ args \in RoundArgs
    /\ pc = "start"
    /\ reactor = NoReactor
    /\ result = NoResult
    /\ active_outputs = EmptyDict
    /\ user_ranges = EmptyDict
    /\ reactor_specific_ranges = EmptyDict
    /\ user_data = EmptyDict
    /\ buttons = EmptyDict
    /\ reply = NoReply
    /\ steps = 0

RoundCall ==
    /\ pc = "start"
    /\ result' = custom_round(args.num, args.den)
    /\ pc' = "done"
    /\ UNCHANGED <<env, args, reactor, botVars>>

NextRound == RoundCall

SpecRound == InitRound /\ [][NextRound]_vars

(***************************************************************************)
(* Spec: the bot.  Users send messages and press the inline buttons they   *)
(* have been sent; each action is one run of a handler of main.py.         *)
(***************************************************************************)

\* Handlers run in a behaviour.
MaxSteps == 7

Users == {1, 2}

\* The four menu buttons, each text one symbol here.
NewOutput == <<"New output">>

CurrentOutputs == <<"Current outputs">>

ZoneRanges == <<"Zone ranges">>

Instructions == <<"Instructions">>

MenuCommands == {NewOutput, CurrentOutputs, ZoneRanges, Instructions}

\* "8,5 3.75 1.25 0": three temperatures and one target.
FourNumbers ==
    <<"8", ",", "5", " ", "3", ".", "7", "5", " ", "1", ".", "2", "5", " ", "0">>

\* "+2 0,5 1 -1 0.5 -1": three temperatures and three targets, or three ranges.
SixNumbers ==
    <<"+", "2", " ", "0", ",", "5", " ", "1", " ", "-", "1", " ",
      "0", ".", "5", " ", "-", "1">>

\* "0 0.5 0 0.5 0 0.5"
SixOthers ==
    <<"0", " ", "0", ".", "5", " ", "0", " ", "0", ".", "5", " ",
      "0", " ", "0", ".", "5">>

\* "0.5 0 1": three temperatures.
ThreeNumbers == <<"0", ".", "5", " ", "0", " ", "1">>

\* "-1 1,5": one range.
TwoNumbers == <<"-", "1", " ", "1", ",", "5">>

\* "8,5 x"
NotNumbers == <<"8", ",", "5", " ", "x">>

\* Reactor numbers: an id, an alternative number (padded) and a number of
\* valid format that the database does not hold.
ReactorNumbers ==
    { <<"1", "-", "1">>, <<" ", "2", "1", " ">>, <<"9", "-", "9">> }

Texts ==
    MenuCommands \cup ReactorNumbers
    \cup {FourNumbers, SixNumbers, SixOthers, ThreeNumbers, TwoNumbers, NotNumbers}

\* The messages each user sends: the first any of the texts, the second only
\* what starts an output of reactor 1-1.
TextsOf(u) ==
    IF u = 1 THEN Texts ELSE {NewOutput, <<"1", "-", "1">>, FourNumbers}

\* The configurations the bot starts with: the coefficients, and the mode of
\* reactor 2-1 in reactors.json.
BotConfigs ==
    { [pc |-> <<1, 2>>, bprt |-> <<1, 3>>, mode2 |-> "bprt",
       pc_max_deviation |-> Half, bprt_max_deviation |-> Unit],
      [pc |-> <<1, 1>>, bprt |-> <<1, 1>>, mode2 |-> "manual",
       pc_max_deviation |-> Half, bprt_max_deviation |-> Unit] }

REACTORS_DB == ReactorsDb(env.mode2)

Init ==
    /\ env \in BotConfigs
    /\ active_outputs = EmptyDict
    /\ user_ranges = EmptyDict
    /\ reactor_specific_ranges = EmptyDict
    /\ user_data = [u \in Users |-> EmptyDict]
    /\ buttons = [u \in Users |-> {}]
    /\ reply = NoReply
    /\ steps = 0
    /\ args = EmptyDict
    /\ pc = "bot"
    /\ reactor = NoReactor
    /\ result = NoResult

\* The reactor of a temperature message: the one being edited, else the
\* current one (None if there is none).
message_reactor(ud) ==
    IF Has(ud, "editing_reactor") THEN ud["editing_reactor"]
    ELSE Get(ud, "current_reactor")

\* What every handler does last: the reply, with the buttons of its keyboard.
Sent(u, kind, reactor_id, error, keyboard) ==
    /\ steps < MaxSteps
    /\ steps' = steps + 1
    /\ reply' = [kind |-> kind, user |-> u, reactor |-> reactor_id,
                 error |-> error]
    /\ buttons' = [buttons EXCEPT ![u] = @ \cup keyboard]
    /\ UNCHANGED <<env, args, pc, reactor, result>>

\* The branch of handle_message that a text other than a menu command
\* takes, by what the session awaits.
Awaited(ud) ==
    IF Get(ud, "state") = "waiting_all_ranges" THEN "all_ranges"
    ELSE IF Has(ud, "editing_range") THEN "editing_range"
    ELSE IF Get(ud, "state") = "waiting_reactor_number" THEN "reactor_number"
    ELSE IF Get(ud, "state") = "waiting_temperatures" \/ Has(ud, "editing_reactor")
    THEN "temperatures"
    ELSE IF Has(ud, "setting_reactor_ranges") THEN "reactor_ranges"
    ELSE "none"

\* The except Exception clause of handle_message.
message_exception(ud) ==
    Keep(ud, {"mode", "current_reactor", "editing_reactor", "state"})

\* The except Exception clause of handle_callback.
callback_exception(ud) == Keep(ud, {"mode"})

\* /start
Start(u) ==
    /\ user_data' = [user_data EXCEPT ![u] = EmptyDict]
    /\ Sent(u, "start", None, "", {})
    /\ UNCHANGED <<active_outputs, user_ranges, reactor_specific_ranges>>

\* A menu command: the states are reset, the mode and the
\* current reactor kept, and the command run.
menu_command(u, text) ==
    /\ LET ud == Keep(user_data[u], {"mode", "current_reactor"})
           sr == show_ranges(u, user_ranges, reactor_specific_ranges)
       IN  IF text = NewOutput
           THEN /\ user_data' = [user_data EXCEPT
                                    ![u] = Put(ud, "state", "waiting_reactor_number")]
                /\ Sent(u, "enter reactor number", None, "", {})
                /\ UNCHANGED <<active_outputs, user_ranges, reactor_specific_ranges>>
           ELSE IF text = CurrentOutputs
           THEN /\ user_data' = [user_data EXCEPT ![u] = ud]
                /\ Sent(u, "active outputs", None, "",
                        { Button("show", r) : r \in (DOMAIN active_outputs) \ {None} })
                /\ UNCHANGED <<active_outputs, user_ranges, reactor_specific_ranges>>
           ELSE IF text = ZoneRanges
           THEN /\ user_ranges' = sr.user_ranges
                /\ user_data' = [user_data EXCEPT ![u] = message_exception(ud)]
                /\ IF sr.ok THEN Sent(u, "ranges", None, "", sr.keyboard)
                   ELSE Sent(u, "exception", None, "KeyError", {})
                /\ UNCHANGED <<active_outputs, reactor_specific_ranges>>
           ELSE /\ user_data' = [user_data EXCEPT ![u] = ud]
                /\ Sent(u, "instructions", None, "", {})
                /\ UNCHANGED <<active_outputs, user_ranges, reactor_specific_ranges>>


\* State waiting_all_ranges: process_all_ranges.  A text
\* that is not six numbers clears user_data; six numbers set the ranges of
\* the reactor being set, or the user's global ranges, and show_ranges runs.
all_ranges_input(u, text) ==
    /\ LET ud == user_data[u]
           six == parse_six_ranges(text)
           forReactor == Has(ud, "setting_reactor_ranges")
           rid == ud["setting_reactor_ranges"]
           rsrd == IF forReactor
                   THEN Put(reactor_specific_ranges, u,
                            Put(IF Has(reactor_specific_ranges, u)
                                THEN reactor_specific_ranges[u] ELSE EmptyDict,
                                rid, six.ranges))
                   ELSE reactor_specific_ranges
           urd == IF forReactor THEN user_ranges
                  ELSE Put(user_ranges, u, six.ranges)
           ud1 == IF forReactor THEN Del(ud, "setting_reactor_ranges")
                  ELSE Del(ud, "state")
           sr == show_ranges(u, urd, rsrd)
       IN  IF ~six.ok
           THEN /\ user_data' = [user_data EXCEPT ![u] = EmptyDict]
                /\ Sent(u, "ranges rejected", None, "ValueError", {})
                /\ UNCHANGED <<active_outputs, user_ranges, reactor_specific_ranges>>
           ELSE /\ reactor_specific_ranges' = rsrd
                /\ user_ranges' = sr.user_ranges
                /\ UNCHANGED active_outputs
                /\ IF sr.ok
                   THEN /\ user_data' = [user_data EXCEPT ![u] = ud1]
                        /\ Sent(u, "ranges set", None, "", sr.keyboard)
                   ELSE /\ user_data' = [user_data EXCEPT
                                            ![u] = message_exception(ud1)]
                        /\ Sent(u, "exception", None, "KeyError", {})

\* editing_range set: the range of one zone.
editing_range_input(u, text) ==
    /\ LET ud == user_data[u]
           zone == ud["editing_range"]
           pr == parse_range(text)
           urd == Put(user_ranges, u,
                      Put(IF Has(user_ranges, u) THEN user_ranges[u] ELSE EmptyDict,
                          zone, pr.range))
           ud1 == Del(ud, "editing_range")
           sr == show_ranges(u, urd, reactor_specific_ranges)
       IN  IF ~pr.ok
           THEN /\ Sent(u, "range rejected", None, "ValueError", {})
                /\ UNCHANGED <<user_data, active_outputs, user_ranges,
                               reactor_specific_ranges>>
           ELSE /\ user_ranges' = sr.user_ranges
                /\ UNCHANGED <<active_outputs, reactor_specific_ranges>>
                /\ IF sr.ok
                   THEN /\ user_data' = [user_data EXCEPT ![u] = ud1]
                        /\ Sent(u, "range set", None, "", sr.keyboard)
                   ELSE /\ user_data' = [user_data EXCEPT
                                            ![u] = message_exception(ud1)]
                        /\ Sent(u, "exception", None, "KeyError", {})

\* State waiting_reactor_number.
reactor_number_input(u, text) ==
    /\ UNCHANGED <<active_outputs, user_ranges, reactor_specific_ranges>>
    /\ LET ud == user_data[u]
           reactor_number == strip(text)
           reactor_id == get_reactor_id(REACTORS_DB, reactor_number)
           mode == get_reactor_mode(REACTORS_DB, reactor_id)
           hasOwn == /\ Has(reactor_specific_ranges, u)
                     /\ Has(reactor_specific_ranges[u], reactor_id)
       IN  IF ~validate_reactor_number(REACTORS_DB, reactor_number)
           THEN /\ user_data' = [user_data EXCEPT
                                    ![u] = Put(ud, "state", "waiting_reactor_number")]
                /\ Sent(u, "reactor rejected", None, "ValueError", {})
           ELSE IF Has(active_outputs, reactor_id)
           THEN /\ user_data' = [user_data EXCEPT
                                    ![u] = Put(ud, "state", "waiting_reactor_number")]
                /\ Sent(u, "reactor busy", reactor_id, "", {})
           ELSE /\ user_data' =
                      [user_data EXCEPT
                          ![u] = Put(Put(Put(ud, "current_reactor", reactor_id),
                                         "mode", mode),
                                     "state", "waiting_temperatures")]
                /\ Sent(u, "reactor chosen", reactor_id, "",
                        IF hasOwn THEN {}
                        ELSE {Button("set_reactor_ranges", reactor_id)})

\* State waiting_temperatures, or editing_reactor set:
\* handle_temperatures for the reactor being edited, else the current one.
temperatures_input(u, text, success) ==
    /\ UNCHANGED <<user_ranges, reactor_specific_ranges>>
    /\ \E reactor_id \in {message_reactor(user_data[u])} :
       \E ht \in {handle_temperatures(u, text, user_data[u], reactor_id,
                                      active_outputs, user_ranges,
                                      reactor_specific_ranges, env, success)} :
          /\ active_outputs' = ht.active_outputs
          /\ IF ht.ok
             THEN /\ user_data' = [user_data EXCEPT
                                      ![u] = Del(ht.user_data, "editing_reactor")]
                  /\ Sent(u, "output", reactor_id, "", ht.keyboard)
             ELSE /\ user_data' =
                        [user_data EXCEPT
                            ![u] = Put(ht.user_data, "state", "waiting_temperatures")]
                  /\ Sent(u, "temperatures rejected", reactor_id, ht.error, {})

\* setting_reactor_ranges set: the ranges of one reactor,
\* after which the bot waits for that reactor's temperatures.
reactor_ranges_input(u, text) ==
    /\ UNCHANGED <<active_outputs, user_ranges>>
    /\ LET ud == user_data[u]
           six == parse_six_ranges(text)
           reactor_id == ud["setting_reactor_ranges"]
           mode == get_reactor_mode(REACTORS_DB, reactor_id)
       IN  IF ~six.ok
           THEN /\ Sent(u, "ranges rejected", reactor_id, "ValueError", {})
                /\ UNCHANGED <<user_data, reactor_specific_ranges>>
           ELSE /\ reactor_specific_ranges' =
                      Put(reactor_specific_ranges, u,
                          Put(IF Has(reactor_specific_ranges, u)
                              THEN reactor_specific_ranges[u] ELSE EmptyDict,
                              reactor_id, six.ranges))
                /\ user_data' =
                      [user_data EXCEPT
                          ![u] = Put(Put(Put(Del(ud, "setting_reactor_ranges"),
                                             "state", "waiting_temperatures"),
                                         "current_reactor", reactor_id),
                                     "mode", mode)]
                /\ Sent(u, "reactor ranges set", reactor_id, "", {})

\* Nothing awaited: no branch runs.
other_message(u, text) ==
    /\ Sent(u, "none", None, "", {})
    /\ UNCHANGED <<user_data, active_outputs, user_ranges, reactor_specific_ranges>>


\* handle_callback.  A user presses a button of a keyboard the bot sent them.
\* The button of an output stored under None carries the text "None", which
\* is no key of the store; pressing it does nothing and it is left out.
Pressed(u, action, arg) == Button(action, arg) \in buttons[u]

\* show_reactor_ranges_<id>
ShowReactorRanges(u, reactor_id) ==
    /\ Pressed(u, "show_reactor_ranges", reactor_id)
    /\ UNCHANGED <<user_data, active_outputs, user_ranges, reactor_specific_ranges>>
    /\ IF /\ Has(reactor_specific_ranges, u)
          /\ Has(reactor_specific_ranges[u], reactor_id)
       THEN Sent(u, "reactor ranges", reactor_id, "",
                 {Button("set_reactor_ranges", reactor_id),
                  Button("delete_reactor_ranges", reactor_id)})
       ELSE Sent(u, "none", reactor_id, "", {})

\* show_<id>
ShowOutput(u, reactor_id) ==
    /\ Pressed(u, "show", reactor_id)
    /\ UNCHANGED <<user_data, active_outputs, user_ranges, reactor_specific_ranges>>
    /\ IF Has(active_outputs, reactor_id)
       THEN Sent(u, "stored output", reactor_id, "",
                 {Button("finish", reactor_id), Button("edit", reactor_id)})
       ELSE Sent(u, "none", reactor_id, "", {})

\* The mode that edit_<id> leaves in user_data: the user's current mode if
\* there is one, else the mode of the stored output.
edit_mode(ud, output) == IF Has(ud, "mode") THEN ud["mode"] ELSE output.mode

\* edit_<id>
EditOutput(u, reactor_id) ==
    /\ Pressed(u, "edit", reactor_id)
    /\ UNCHANGED <<active_outputs, user_ranges, reactor_specific_ranges>>
    /\ IF Has(active_outputs, reactor_id)
       THEN /\ user_data' =
                  [user_data EXCEPT
                      ![u] = Put(Put(EmptyDict, "mode",
                                     edit_mode(user_data[u],
                                               active_outputs[reactor_id])),
                                 "editing_reactor", reactor_id)]
            /\ Sent(u, "enter new temperatures", reactor_id, "", {})
       ELSE /\ UNCHANGED user_data
            /\ Sent(u, "none", reactor_id, "", {})

\* finish_<id> emptying the store, active_outputs.clear(), instead of
\* deleting the key.
FinishOutput_clearing_store(u, reactor_id) ==
    /\ Pressed(u, "finish", reactor_id)
    /\ UNCHANGED <<user_data, user_ranges, reactor_specific_ranges>>
    /\ IF Has(active_outputs, reactor_id)
       THEN /\ active_outputs' = EmptyDict
            /\ Sent(u, "finished", reactor_id, "", {})
       ELSE /\ UNCHANGED active_outputs
            /\ Sent(u, "none", reactor_id, "", {})

\* finish_<id>
FinishOutput(u, reactor_id) ==
    /\ Pressed(u, "finish", reactor_id)
    /\ UNCHANGED <<user_data, user_ranges, reactor_specific_ranges>>
    /\ IF Has(active_outputs, reactor_id)
       THEN /\ active_outputs' = Del(active_outputs, reactor_id)
            /\ Sent(u, "finished", reactor_id, "", {})
       ELSE /\ UNCHANGED active_outputs
            /\ Sent(u, "none", reactor_id, "", {})

\* set_reactor_ranges_<id>
SetReactorRanges(u, reactor_id) ==
    /\ Pressed(u, "set_reactor_ranges", reactor_id)
    /\ UNCHANGED <<active_outputs, user_ranges, reactor_specific_ranges>>
    /\ user_data' = [user_data EXCEPT
                        ![u] = Put(Keep(@, {"mode"}),
                                   "setting_reactor_ranges", reactor_id)]
    /\ Sent(u, "enter reactor ranges", reactor_id, "", {Button("back_to_ranges", "")})

\* delete_reactor_ranges_<id> deleting the reactor from a copy of the
\* user's entry, which leaves the store as it was.
DeleteReactorRanges_from_a_copy(u, reactor_id) ==
    /\ Pressed(u, "delete_reactor_ranges", reactor_id)
    /\ UNCHANGED active_outputs
    /\ IF /\ Has(reactor_specific_ranges, u)
          /\ Has(reactor_specific_ranges[u], reactor_id)
       THEN /\ UNCHANGED reactor_specific_ranges
            /\ user_ranges' = show_ranges(u, user_ranges,
                                          reactor_specific_ranges).user_ranges
            /\ user_data' = [user_data EXCEPT ![u] = callback_exception(@)]
            /\ Sent(u, "exception", reactor_id, "show_ranges", {})
       ELSE /\ UNCHANGED <<user_data, user_ranges, reactor_specific_ranges>>
            /\ Sent(u, "none", reactor_id, "", {})

\* delete_reactor_ranges_<id>.  show_ranges, called from a callback, creates
\* the user's entry of user_ranges if absent and then fails: it replies
\* through update.message, which is None for a callback query (or a zone is
\* missing from the entry).  The except clause keeps only the mode.
DeleteReactorRanges(u, reactor_id) ==
    /\ Pressed(u, "delete_reactor_ranges", reactor_id)
    /\ UNCHANGED active_outputs
    /\ IF /\ Has(reactor_specific_ranges, u)
          /\ Has(reactor_specific_ranges[u], reactor_id)
       THEN LET rest == Del(reactor_specific_ranges[u], reactor_id)
                rsrd == IF rest = EmptyDict THEN Del(reactor_specific_ranges, u)
                        ELSE Put(reactor_specific_ranges, u, rest)
            IN  /\ reactor_specific_ranges' = rsrd
                /\ user_ranges' = show_ranges(u, user_ranges, rsrd).user_ranges
                /\ user_data' = [user_data EXCEPT ![u] = callback_exception(@)]
                /\ Sent(u, "exception", reactor_id, "show_ranges", {})
       ELSE /\ UNCHANGED <<user_data, user_ranges, reactor_specific_ranges>>
            /\ Sent(u, "none", reactor_id, "", {})

\* range_B, range_C, range_D (handle_range_callback) and range_all
\* (set_range_all)
RangeZone(u, zone) ==
    /\ Pressed(u, "range", zone)
    /\ UNCHANGED <<active_outputs, user_ranges, reactor_specific_ranges>>
    /\ user_data' =
          [user_data EXCEPT
              ![u] = IF zone = "all"
                     THEN Put(Keep(@, {"mode"}), "state", "waiting_all_ranges")
                     ELSE Put(Keep(@, {"mode"}), "editing_range", zone)]
    /\ Sent(u, "enter range", None, "", {Button("back_to_ranges", "")})

\* back_to_ranges: the states are reset and show_ranges fails as above.
BackToRanges(u) ==
    /\ Pressed(u, "back_to_ranges", "")
    /\ UNCHANGED <<active_outputs, reactor_specific_ranges>>
    /\ user_ranges' = show_ranges(u, user_ranges, reactor_specific_ranges).user_ranges
    /\ user_data' = [user_data EXCEPT ![u] = callback_exception(@)]
    /\ Sent(u, "exception", None, "show_ranges", {})

\* result.success of the optimizer, which only Strategy A reads: either
\* outcome when the ranges in effect are empty.
optimizer_outcomes(ranges) == IF ranges = NoRanges THEN BOOLEAN ELSE {TRUE}

\* handle_message(update, context): user u sends a text, which takes the
\* branch of a menu command or the branch of what the session awaits.
MenuCommand(u) ==
    \E text \in TextsOf(u) \cap MenuCommands : menu_command(u, text)

AllRangesInput(u) ==
    /\ Awaited(user_data[u]) = "all_ranges"
    /\ \E text \in TextsOf(u) \ MenuCommands : all_ranges_input(u, text)

EditingRangeInput(u) ==
    /\ Awaited(user_data[u]) = "editing_range"
    /\ \E text \in TextsOf(u) \ MenuCommands : editing_range_input(u, text)

ReactorNumberInput(u) ==
    /\ Awaited(user_data[u]) = "reactor_number"
    /\ \E text \in TextsOf(u) \ MenuCommands : reactor_number_input(u, text)

TemperaturesInput(u) ==
    /\ Awaited(user_data[u]) = "temperatures"
    /\ \E text \in TextsOf(u) \ MenuCommands :
       \E success \in optimizer_outcomes(
                          resolve_ranges(u, message_reactor(user_data[u]),
                                         user_ranges,
                                         reactor_specific_ranges).ranges) :
          temperatures_input(u, text, success)

ReactorRangesInput(u) ==
    /\ Awaited(user_data[u]) = "reactor_ranges"
    /\ \E text \in TextsOf(u) \ MenuCommands : reactor_ranges_input(u, text)

OtherMessage(u) ==
    /\ Awaited(user_data[u]) = "none"
    /\ \E text \in TextsOf(u) \ MenuCommands : other_message(u, text)

Next ==
    \E u \in Users :
        \/ Start(u)
        \/ MenuCommand(u)
        \/ AllRangesInput(u)
        \/ EditingRangeInput(u)
        \/ ReactorNumberInput(u)
        \/ TemperaturesInput(u)
        \/ ReactorRangesInput(u)
        \/ OtherMessage(u)
        \/ \E reactor_id \in ReactorIds :
              \/ ShowReactorRanges(u, reactor_id)
              \/ ShowOutput(u, reactor_id)
              \/ EditOutput(u, reactor_id)
              \/ FinishOutput(u, reactor_id)
              \/ SetReactorRanges(u, reactor_id)
              \/ DeleteReactorRanges(u, reactor_id)
        \/ \E zone \in ZoneSet \cup {"all"} : RangeZone(u, zone)
        \/ BackToRanges(u)

Spec == Init /\ [][Next]_vars

(***************************************************************************)
(* SpecRanges: the bot from the state in which user 1 has chosen reactor   *)
(* 1-1, set ranges of its own for it ("0 0.5 0 0.5 0 0.5"), opened the     *)
(* zone ranges and then the ranges of the reactor, so that the keyboard    *)
(* with the delete button has been sent; steps counts the handlers run     *)
(* from there.  Both reactors of reactors.json have a mode of the solver,  *)
(* and user 1 is the only one to write to the bot.                         *)
(***************************************************************************)

RangesOfReactor == parse_six_ranges(SixOthers).ranges

InitRanges ==
    /\ env \in { c \in BotConfigs : c.mode2 \in ValidModes }
    /\ active_outputs = EmptyDict
    /\ reactor_specific_ranges =
          Put(EmptyDict, 1, Put(EmptyDict, "1-1", RangesOfReactor))
    /\ user_ranges =
          show_ranges(1, EmptyDict, reactor_specific_ranges).user_ranges
    /\ user_data =
          [u \in Users |->
              IF u = 1
              THEN Put(Put(EmptyDict, "mode", get_reactor_mode(REACTORS_DB, "1-1")),
                       "current_reactor", "1-1")
              ELSE EmptyDict]
    /\ buttons =
          [u \in Users |->
              IF u = 1
              THEN {Button("set_reactor_ranges", "1-1"), Button("back_to_ranges", ""),
                    Button("delete_reactor_ranges", "1-1")}
                   \cup show_ranges(1, EmptyDict, reactor_specific_ranges).keyboard
              ELSE {}]
    /\ reply = [kind |-> "reactor ranges", user |-> 1, reactor |-> "1-1",
                error |-> ""]
    /\ steps = 0
    /\ args = EmptyDict
    /\ pc = "bot"
    /\ reactor = NoReactor
    /\ result = NoResult

\* The handlers run for user 1; user 2 sends nothing.
NextRanges ==
    \/ Start(1)
    \/ MenuCommand(1)
    \/ AllRangesInput(1)
    \/ EditingRangeInput(1)
    \/ ReactorNumberInput(1)
    \/ TemperaturesInput(1)
    \/ ReactorRangesInput(1)
    \/ OtherMessage(1)
    \/ \E reactor_id \in ReactorIds :
          \/ ShowReactorRanges(1, reactor_id)
          \/ ShowOutput(1, reactor_id)
          \/ EditOutput(1, reactor_id)
          \/ FinishOutput(1, reactor_id)
          \/ SetReactorRanges(1, reactor_id)
          \/ DeleteReactorRanges(1, reactor_id)
    \/ \E zone \in ZoneSet \cup {"all"} : RangeZone(1, zone)
    \/ BackToRanges(1)

SpecRanges == InitRanges /\ [][NextRanges]_vars

(***************************************************************************)
(* SpecRestart: the bot started anew (main.py:900-906 keeps no persistence:*)
(* the stores of main.py:52-59 and every context.user_data are empty),     *)
(* while user 1 still has, in the chat, the zone-ranges keyboard that an   *)
(* earlier run of the bot sent.  User 1 is the only one to write.          *)
(***************************************************************************)

ButtonsOfEarlierRun == show_ranges(1, EmptyDict, EmptyDict).keyboard

InitRestart ==
    /\ env \in BotConfigs
    /\ active_outputs = EmptyDict
    /\ user_ranges = EmptyDict
    /\ reactor_specific_ranges = EmptyDict
    /\ user_data = [u \in Users |-> EmptyDict]
    /\ buttons = [u \in Users |-> IF u = 1 THEN ButtonsOfEarlierRun ELSE {}]
    /\ reply = NoReply
    /\ steps = 0
    /\ args = EmptyDict
    /\ pc = "bot"
    /\ reactor = NoReactor
    /\ result = NoResult

SpecRestart == InitRestart /\ [][NextRanges]_vars


(***************************************************************************)
(* Properties of the bot.                                                  *)
(***************************************************************************)

\* The step is a successful temperature request: the handler replied with an
\* output.
OutputStep == reply'.kind = "output"

\* The step is a successful edit: a successful temperature request of a user
\* who was editing the reactor.
EditStep(r) ==
    /\ OutputStep
    /\ reply'.reactor = r
    /\ Has(user_data[reply'.user], "editing_reactor")
    /\ user_data[reply'.user]["editing_reactor"] = r

\* The ranges that the resolution order gives (user, reactor_id).
RangesInOrder(u, reactor_id) ==
    IF u \in DOMAIN reactor_specific_ranges
       /\ reactor_id \in DOMAIN reactor_specific_ranges[u]
    THEN reactor_specific_ranges[u][reactor_id]
    ELSE IF u \in DOMAIN user_ranges /\ DOMAIN user_ranges[u] # {}
    THEN user_ranges[u]
    ELSE [z \in ZoneSet |->
             IF z = "B" THEN <<2 * Unit, 0>>
             ELSE IF z = "C" THEN <<Unit, -Unit>>
             ELSE <<0, -Unit>>]

\* C2: the working range used for a computation for (user, reactor) is that
\* user's reactor-specific override for the reactor when one exists,
\* otherwise that user's global override when one exists, otherwise the
\* system default ranges: the output stored by a successful request prints
\* these ranges and holds the corrections computed with them.
C2_RangeResolutionOrder ==
    [][OutputStep =>
         LET output == active_outputs'[reply'.reactor]
             expected == RangesInOrder(reply'.user, reply'.reactor)
         IN  /\ output.message.ranges = expected
             /\ output.corrections =
                    calculate_corrections(
                        IF output.mode = "pc" THEN env.pc ELSE env.bprt,
                        output.temps.current, output.temps.target_temps,
                        expected).corrections]_vars

\* An output computed with the reactor's own ranges for a user who has
\* global ranges as well, the two differing.
C2_Witness ==
    /\ reply.kind = "output"
    /\ reply.reactor \in DOMAIN active_outputs
    /\ active_outputs[reply.reactor].message.ranges_info = "reactor"
    /\ reply.user \in DOMAIN user_ranges
    /\ reply.user \in DOMAIN reactor_specific_ranges
    /\ reply.reactor \in DOMAIN reactor_specific_ranges[reply.user]
    /\ user_ranges[reply.user]
          # reactor_specific_ranges[reply.user][reply.reactor]
    /\ active_outputs[reply.reactor].message.ranges
          = reactor_specific_ranges[reply.user][reply.reactor]

\* C3: while the active-output store holds reactor X, no new-output flow
\* replaces X's entry: a step changes the entry only if it is an edit of X,
\* and removes it only if it finishes X.
C3_ActiveOutputNotReplaced ==
    [][\A r \in DOMAIN active_outputs :
          /\ (r \in DOMAIN active_outputs' /\ active_outputs'[r] # active_outputs[r])
                => EditStep(r)
          /\ r \notin DOMAIN active_outputs'
                => (reply'.kind = "finished" /\ reply'.reactor = r)]_vars

\* The step is a temperature request that failed.
RejectedStep == reply'.kind = "temperatures rejected"

\* C4: when a temperature request fails at any step (input format error,
\* missing or invalid mode, linear solve failure, solver non-convergence),
\* the active-output store and both range stores are exactly as they were
\* before the request.
C4_FailedRequestChangesNoStore ==
    [][RejectedStep =>
         /\ active_outputs' = active_outputs
         /\ user_ranges' = user_ranges
         /\ reactor_specific_ranges' = reactor_specific_ranges]_vars

\* A request that failed in the linear solve, and one that failed on its
\* input while an output was stored.
C4_Witness ==
    /\ reply.kind = "temperatures rejected"
    /\ \/ reply.error = "LinAlgError"
       \/ reply.error = "format" /\ active_outputs # EmptyDict

\* C5: editing a reactor's temperatures replaces only the current
\* temperatures: the target temperatures stored in its active output after a
\* successful edit equal those stored before it, for uniform and for
\* per-zone targets alike.
C5_EditKeepsTargets ==
    [][\A r \in DOMAIN active_outputs :
          EditStep(r) =>
              active_outputs'[r].temps.target_temps
                  = active_outputs[r].temps.target_temps]_vars

\* C6: the mode recorded with an active output never changes from the one
\* chosen when the output was created, whatever other reactors the user
\* selected in between: an edit is computed with the stored mode.
C6_OutputModeNeverChanges ==
    [][\A r \in (DOMAIN active_outputs) \cap (DOMAIN active_outputs') :
          active_outputs'[r].mode = active_outputs[r].mode]_vars


\* The tokens of the text parsed, and their values.
ArgTokens == split(args.input_str)

ArgValues == [i \in 1..Len(ArgTokens) |-> parse_temperature(ArgTokens[i]).value]

AllNumeric == \A i \in 1..Len(ArgTokens) : parse_temperature(ArgTokens[i]).ok

\* C7: parse_temperatures accepts exactly 3 numeric tokens in editing mode,
\* and exactly 4 or exactly 6 numeric tokens otherwise; any other token
\* count, or any unparsable token, raises an input-format error and returns
\* no temperatures.
C7_AcceptedTokenCounts ==
    pc = "done" =>
        /\ result.ok <=>
               /\ AllNumeric
               /\ IF args.editing_mode THEN Len(ArgTokens) = 3
                  ELSE Len(ArgTokens) \in {4, 6}
        /\ ~result.ok =>
               result.current_temps = <<>> /\ result.target_temps = <<>>

\* C8: a 4-token input yields a target vector of three values all equal to
\* the single target token, and a 6-token input yields a target vector equal
\* to its last three tokens in order; in both cases the current temperatures
\* are the first three tokens in order.
C8_TargetsOfFourAndSixTokens ==
    (pc = "done" /\ result.ok /\ Len(ArgTokens) \in {4, 6}) =>
        /\ result.current_temps = <<ArgValues[1], ArgValues[2], ArgValues[3]>>
        /\ Len(ArgTokens) = 4 =>
               result.target_temps = <<ArgValues[4], ArgValues[4], ArgValues[4]>>
        /\ Len(ArgTokens) = 6 =>
               result.target_temps = <<ArgValues[4], ArgValues[5], ArgValues[6]>>

\* C8's case: six tokens with three different targets were accepted.
C8_Witness ==
    /\ pc = "done" /\ result.ok /\ Len(ArgTokens) = 6
    /\ ArgValues[4] # ArgValues[5] /\ ArgValues[5] # ArgValues[6]
    /\ result.current_temps[1] = 1008 * Unit + Half

\* The pairs that the range input of this step stored, by the reply of the
\* handler that took it: one zone of the user's global ranges, the three
\* zones of them, or the three zones of a reactor's own ranges.
StoredByInput ==
    LET u == reply'.user
        ud == user_data[u]
    IN  IF reply'.kind = "range set"
        THEN { user_ranges'[u][ud["editing_range"]] }
        ELSE IF reply'.kind = "reactor ranges set"
        THEN { reactor_specific_ranges'[u][reply'.reactor][z] : z \in ZoneSet }
        ELSE IF reply'.kind = "ranges set"
        THEN IF Has(ud, "setting_reactor_ranges")
             THEN { reactor_specific_ranges'[u][ud["setting_reactor_ranges"]][z] :
                      z \in ZoneSet }
             ELSE { user_ranges'[u][z] : z \in ZoneSet }
        ELSE {}

\* C14: a range input whose max offset is less than its min offset for some
\* zone is rejected and is not stored in the user-global or the
\* reactor-specific range store: every (min, max) pair that a range input
\* stores has min <= max.
C14_InvalidRangeInputNotStored ==
    [][\A range \in StoredByInput : range[1] <= range[2]]_vars

\* C15: every working range in effect for a computation, whether taken from
\* the reactor-specific store, the user-global store or the system defaults,
\* satisfies min_offset <= max_offset for each zone: so do the ranges of
\* every output computed.
C15_RangesInEffectOrdered ==
    [][OutputStep =>
         \A z \in ZoneSet :
             LET range == active_outputs'[reply'.reactor].message.ranges[z]
             IN  range[1] <= range[2]]_vars

\* The step is a temperature request of a user who has neither ranges of the
\* reactor's own nor global ranges, whose text and mode were accepted.
RequestWithoutOverrides ==
    /\ reply'.kind \in {"output", "temperatures rejected"}
    /\ reply'.error \notin {"format", "count", "no reactor chosen", "mode"}
    /\ ~Has(user_ranges, reply'.user)
    /\ ~(/\ Has(reactor_specific_ranges, reply'.user)
         /\ Has(reactor_specific_ranges[reply'.user], reply'.reactor))

\* C16: when neither a reactor-specific nor a user-global override exists
\* for the requesting user, the computation uses the configured default
\* ranges for all three zones and completes without raising an error.
C16_DefaultsWithoutOverrides ==
    [][RequestWithoutOverrides =>
         /\ OutputStep
         /\ active_outputs'[reply'.reactor].message.ranges_info = "default"
         /\ active_outputs'[reply'.reactor].message.ranges
                = [z \in ZoneSet |->
                      IF z = "B" THEN <<DEFAULT_RANGES[1], DEFAULT_RANGES[2]>>
                      ELSE IF z = "C" THEN <<DEFAULT_RANGES[3], DEFAULT_RANGES[4]>>
                      ELSE <<DEFAULT_RANGES[5], DEFAULT_RANGES[6]>>]]_vars

(***************************************************************************)
(* Properties of the solver (SpecSolve).                                   *)
(***************************************************************************)

SolvedB == pc = "done" /\ result.status = "ok" /\ result.strategy = "B"

\* final_temps[i] >= x and final_temps[i] <= x, for a result's final_temps.
FinalAtLeast(f, i, x) == f.num[i] >= (x - f.base[i]) * f.den[i]

FinalAtMost(f, i, x) == f.num[i] <= (x - f.base[i]) * f.den[i]

\* C1: for every request solved by Strategy B, each zone's final temperature
\* lies within [target + min_offset - 0.25, target + max_offset + 0.25] of
\* that zone.
C1_FinalWithinRangeSlack ==
    SolvedB =>
        \A i \in 1..3 :
            LET range == reactor.user_ranges[ZoneNames[i]]
                target == reactor.TARGET_TEMPS[i]
            IN  /\ FinalAtLeast(result.final_temps, i,
                                target + RangeLower(range) - Quarter)
                /\ FinalAtMost(result.final_temps, i,
                               target + RangeUpper(range) + Quarter)

\* The 0.5-step grid points of the band [lower, upper], counted from lower.
BandGrid(lower, upper) ==
    {lower + Half * j : j \in 0..((upper - lower) \div Half)}

\* C9: under Strategy B the Center zone's desired target is target_C +
\* max_offset_C when the current Center reading is above the band, target_C +
\* min_offset_C when it is below, and otherwise the 0.5-step grid point of
\* the band nearest to the current reading.
C9_CenterTargetClampOrBandGrid ==
    SolvedB =>
        LET current == reactor.initial_temps[2]
            upper == reactor.TARGET_TEMPS[2] + RangeUpper(reactor.user_ranges["C"])
            lower == reactor.TARGET_TEMPS[2] + RangeLower(reactor.user_ranges["C"])
            chosen == result.targets[2]
        IN  IF current > upper THEN chosen = upper
            ELSE IF current < lower THEN chosen = lower
            ELSE /\ chosen \in BandGrid(lower, upper)
                 /\ \A g \in BandGrid(lower, upper) :
                        Abs(chosen - current) <= Abs(g - current)

\* The values a zone's reading, target and range are changed to in C10.
AltTemps == {BaseTarget + d : d \in Deviations \cup {5 * Unit}}

AltRanges == { <<-Unit, Unit>>, <<0, 3>>, <<0, 2 * Unit>> }

\* The solver's inputs with zone j's reading, target and range replaced.
WithZone(inp, j, current, target, range) ==
    [initial_temps |-> [inp.initial_temps EXCEPT ![j] = current],
     TARGET_TEMPS |-> [inp.TARGET_TEMPS EXCEPT ![j] = target],
     user_ranges |-> [inp.user_ranges EXCEPT ![ZoneNames[j]] = range]]

TargetsOf(inp) ==
    desired_targets(inp.initial_temps, inp.TARGET_TEMPS, inp.user_ranges)

C11_InfluenceMatrixNonSingular ==
    (pc \in {"constructed", "set", "done"} /\ reactor.ok) =>
        LET k == reactor.heat_transfer_coef
        IN  (0 < k[1] /\ k[1] <= k[2]) =>
                /\ Det3(get_influence_matrix(k)) # 0
                /\ (pc = "done" /\ result.strategy = "B")
                       => result.error # "LinAlgError"

\* The final temperatures of a result are whole numbers of model units, and
\* their values then.
FinalIsWhole(f) == \A i \in 1..3 : f.num[i] % f.den[i] = 0

FinalValue(f) == [i \in 1..3 |-> f.base[i] + f.num[i] \div f.den[i]]

\* C12: re-running Strategy B with the final temperatures of a run as the
\* new current temperatures, and the same targets and ranges, yields a
\* correction of less than 0.25 in absolute value for every zone whose new
\* current temperature lies within its range.  Stated for the runs whose
\* final temperatures are whole numbers of model units.
C12_RerunNeedsNoCorrection ==
    (SolvedB /\ FinalIsWhole(result.final_temps)) =>
        LET current == FinalValue(result.final_temps)
            rerun == calculate_corrections(reactor.heat_transfer_coef, current,
                         reactor.TARGET_TEMPS, reactor.user_ranges)
        IN  /\ rerun.ok
            /\ \A i \in 1..3 :
                   LET range == reactor.user_ranges[ZoneNames[i]]
                       target == reactor.TARGET_TEMPS[i]
                   IN  (/\ current[i] >= target + RangeLower(range)
                        /\ current[i] <= target + RangeUpper(range))
                           => Abs(rerun.corrections.num[i])
                                  < Quarter * rerun.corrections.den

\* A working range is in effect for the request of a direct call: the entry
\* of the calling user in the dictionary passed, if it is not empty, or the
\* system defaults when the dictionary has no entry for the user.
RangeInEffect ==
    IF 1 \in DOMAIN args.user_ranges_dict
    THEN DOMAIN args.user_ranges_dict[1] # {}
    ELSE TRUE

\* C13: optimize_temperatures uses the range-aware deterministic solve
\* (Strategy B) exactly when a working range is in effect for the request
\* and the unconstrained optimization (Strategy A) exactly when none is;
\* never both and never neither.
C13_StrategyByWorkingRange ==
    (pc = "done" /\ reactor.ok) =>
        /\ result.strategy \in {"A", "B"}
        /\ result.strategy = "B" <=> RangeInEffect
        /\ result.strategy = "A" <=> ~RangeInEffect

\* C13's cases: a request with an empty range entry, solved by Strategy A.
C13_Witness ==
    /\ pc = "done"
    /\ result.status = "ok"
    /\ result.strategy = "A"
    /\ 1 \in DOMAIN args.user_ranges_dict
    /\ result.final_temps.base = reactor.initial_temps

\* The exact solution of the linear system of a request solved by Strategy B.
ExactSolution ==
    linalg_solve(reactor.heat_transfer_coef,
                 [i \in 1..3 |-> result.targets[i] - reactor.initial_temps[i]])

\* C17: every correction returned by Strategy B is the corresponding
\* component of the exact linear-system solution rounded to the nearest
\* multiple of 0.5 (none is nearer), and is therefore always an integer
\* multiple of 0.5.
C17_CorrectionsRoundedToHalf ==
    SolvedB =>
        /\ ExactSolution.ok
        /\ result.corrections.den = 1
        /\ \A j \in 1..3 :
               /\ result.corrections.num[j] % Half = 0
               /\ Abs(result.corrections.num[j] * ExactSolution.den
                          - ExactSolution.num[j])
                      <= Quarter * ExactSolution.den

\* C17's case: a component of the exact solution is no multiple of 0.5 and
\* is rounded away from zero to one.
C17_Witness ==
    /\ SolvedB
    /\ \E j \in 1..3 :
           /\ ExactSolution.num[j] % (Half * ExactSolution.den) # 0
           /\ Abs(result.corrections.num[j]) * ExactSolution.den
                  > Abs(ExactSolution.num[j])

\* Row i, column j of the influence matrix times zone j's correction.
InfluenceTerm(i, j) ==
    FracMul(Frac(get_influence_matrix(reactor.heat_transfer_coef)[i][j],
                 MatScale(reactor.heat_transfer_coef)),
            Frac(result.corrections.num[j], result.corrections.den))

\* C18: the final temperatures returned with a result equal current
\* temperatures + InfluenceMatrix . corrections for the very corrections
\* returned alongside them (under Strategy B the quantized ones), where row
\* i, column j of the matrix weights zone j's correction at zone i.
C18_FinalIsCurrentPlusInfluence ==
    (pc = "done" /\ result.status = "ok") =>
        /\ result.final_temps.base = reactor.initial_temps
        /\ \A i \in 1..3 :
               Frac(result.final_temps.num[i], result.final_temps.den[i])
                   = FracAdd(FracAdd(InfluenceTerm(i, 1), InfluenceTerm(i, 2)),
                             InfluenceTerm(i, 3))

\* C18's case: Strategy B returned three different corrections, none zero,
\* for a coefficient below 1.
C18_Witness ==
    /\ SolvedB
    /\ reactor.heat_transfer_coef[1] < reactor.heat_transfer_coef[2]
    /\ \A j \in 1..3 : result.corrections.num[j] # 0
    /\ result.corrections.num[1] # result.corrections.num[3]
    /\ result.corrections.num[1] # result.corrections.num[2]

\* The objective of the claim at corrections num / den, in square degrees:
\* the sum over the zones of (final - target)^2 plus 1000 times the sum over
\* the zones of max(|final - target| - max_deviation, 0).
PenalisedObjective(self, corrections) ==
    LET f == calculate_temperature_changes(self.heat_transfer_coef,
                                           self.initial_temps, corrections)
        deviation(i) ==
            Frac((f.base[i] - self.TARGET_TEMPS[i]) * f.den[i] + f.num[i],
                 f.den[i] * Unit)
        excess(i) ==
            LET over == FracAdd(<<Abs(deviation(i)[1]), deviation(i)[2]>>,
                                Frac(-self.MAX_DEVIATION, Unit))
            IN  IF over[1] > 0 THEN over ELSE <<0, 1>>
        square(i) == FracMul(deviation(i), deviation(i))
    IN  FracAdd(FracAdd(FracAdd(square(1), square(2)), square(3)),
                FracMul(<<1000, 1>>,
                        FracAdd(FracAdd(excess(1), excess(2)), excess(3))))

\* C19: the objective minimized by Strategy A is the sum over zones of
\* (final - target)^2 plus 1000 times the sum over zones of
\* max(|final - target| - max_deviation, 0), with max_deviation selected by
\* the mode: the objective function of a request that Strategy A solves has
\* this value at the initial guess, zeros(3), and at the corrections returned.
C19_ObjectiveWithDeviationPenalty ==
    (pc \in {"set", "done"} /\ reactor.ok /\ reactor.user_ranges = NoRanges) =>
        /\ reactor.MAX_DEVIATION
               = (IF args.mode = "pc" THEN env.pc_max_deviation
                  ELSE env.bprt_max_deviation)
        /\ objective_function(reactor, [num |-> <<0, 0, 0>>, den |-> 1])
               = PenalisedObjective(reactor, [num |-> <<0, 0, 0>>, den |-> 1])
        /\ (pc = "done" /\ result.status = "ok") =>
               objective_function(reactor, result.corrections)
                   = PenalisedObjective(reactor, result.corrections)

\* The influence matrix of the reactor constructed, scaled by InfluenceScale.
InfluenceOfReactor == get_influence_matrix(reactor.heat_transfer_coef)

InfluenceScale == MatScale(reactor.heat_transfer_coef)

\* C20 as stated: every off-diagonal coefficient of the influence matrix
\* lies strictly between 0 and 1 and every diagonal coefficient equals 1, for
\* both modes.
C20_OffDiagonalStrictlyBelowOne ==
    (pc # "start" /\ reactor.ok) =>
        \A i \in 1..3 : \A j \in 1..3 :
            IF i = j THEN InfluenceOfReactor[i][j] = InfluenceScale
            ELSE /\ 0 < InfluenceOfReactor[i][j]
                 /\ InfluenceOfReactor[i][j] < InfluenceScale

\* C20 amended: every diagonal coefficient equals 1 and so do the two
\* coefficients of the Center's column (the Center's correction at each
\* edge); every other off-diagonal coefficient lies in (0, 1], strictly below
\* 1 when the heat-transfer coefficient is below 1; for both modes.
C20_CenterColumnOneOthersAtMostOne ==
    (pc # "start" /\ reactor.ok) =>
        \A i \in 1..3 : \A j \in 1..3 :
            IF i = j \/ j = 2 THEN InfluenceOfReactor[i][j] = InfluenceScale
            ELSE /\ 0 < InfluenceOfReactor[i][j]
                 /\ InfluenceOfReactor[i][j] <= InfluenceScale
                 /\ reactor.heat_transfer_coef[1] < reactor.heat_transfer_coef[2]
                        => InfluenceOfReactor[i][j] < InfluenceScale

\* C20's case: a reactor of the second mode, constructed with a coefficient
\* below 1, has solved a request.
C20_Witness ==
    /\ pc = "done"
    /\ reactor.ok
    /\ reactor.mode = "bprt"
    /\ reactor.heat_transfer_coef[1] < reactor.heat_transfer_coef[2]
    /\ result.status = "ok"

(***************************************************************************)
(* Properties of custom_round (SpecRound).                                 *)
(***************************************************************************)

\* C21: custom_round returns the "no correction" label exactly when the
\* value is less than 0.25 in absolute value, and a number for every other
\* value.
C21_NoCorrectionLabelBelowQuarter ==
    pc = "done" =>
        /\ result.label \in {"none", "number"}
        /\ result.label = "none" <=> 4 * Abs(args.num) < Unit * args.den

\* A value of exactly 0.25 or -0.25 has been labelled with a number.
C21_Witness ==
    /\ pc = "done"
    /\ 4 * Abs(args.num) = Unit * args.den
    /\ result.label = "number"

\* The distance of the value num / den from g halves of a degree, in units
\* of 1 / (Unit * den) degrees.
LabelDistance(g) == Abs(args.num - g * Half * args.den)

\* The multiples of a half degree around the values of RoundArgs.
LabelGrid == (-(2 * MaxRoundNum) \div Unit - 2)..((2 * MaxRoundNum) \div Unit + 2)

WholeLabels == { g \in LabelGrid : g % 2 = 0 }

HalfLabels == { g \in LabelGrid : g % 2 = 1 }

\* C22: for a value of at least 0.25 in absolute value the label is the
\* nearest half-integer when that is strictly closer to the value than the
\* nearest integer, and the nearest integer otherwise (a tie goes to the
\* integer); 0.3 gives 0.5 and -1.1 gives -1.
C22_LabelIsCloserOfIntegerAndHalf ==
    (pc = "done" /\ 4 * Abs(args.num) >= Unit * args.den) =>
        /\ result.label = "number"
        /\ result.halves \in LabelGrid
        /\ IF \E i \in WholeLabels :
                  \A h \in HalfLabels : LabelDistance(i) <= LabelDistance(h)
           THEN /\ result.halves \in WholeLabels
                /\ \A i \in WholeLabels :
                       LabelDistance(result.halves) <= LabelDistance(i)
           ELSE /\ result.halves \in HalfLabels
                /\ \A h \in HalfLabels :
                       LabelDistance(result.halves) <= LabelDistance(h)
        /\ args = [num |-> 12, den |-> 5] => result.halves = 1
        /\ args = [num |-> -44, den |-> 5] => result.halves = -2

\* 0.75 is as far from 1 as from 0.5, and has been labelled 1.
C22_Witness ==
    /\ pc = "done"
    /\ args = [num |-> 6, den |-> 1]
    /\ LabelDistance(2) = LabelDistance(1)
    /\ result = [label |-> "number", halves |-> 2]

(***************************************************************************)
(* Properties of the mode (SpecSolve).                                     *)
(***************************************************************************)

\* C23: constructing a ThermalReactor with a mode other than 'pc' and
\* 'bprt' raises an error: no reactor is built, no corrections or final
\* temperatures are produced, and the call never goes on under another mode.
C23_InvalidModeRaises ==
    (pc # "start" /\ args.mode \notin {"pc", "bprt"}) =>
        /\ pc = "done"
        /\ ~reactor.ok
        /\ result.status = "error"
        /\ result.error = "mode"
        /\ result.strategy = ""
        /\ result.corrections = NoResult.corrections
        /\ result.final_temps = NoResult.final_temps

\* A construction with the mode 'manual' has raised.
C23_Witness ==
    /\ pc = "done"
    /\ args.mode = "manual"
    /\ result.status = "error"

(***************************************************************************)
(* Properties of the bot: requests and the stores.                         *)
(***************************************************************************)

\* What a request with these inputs returns on a ThermalReactor built for
\* it alone, whoever asks.
RequestAlone(u, output) ==
    optimize_temperatures(
        set_temperatures(
            ThermalReactor(output.mode, [x \in {u} |-> output.message.ranges], env),
            output.temps.current, output.temps.target_temps, u),
        TRUE)

\* C24: the corrections and the final temperatures of a request depend only
\* on its current temperatures, targets, mode and resolved range: whatever
\* was processed before, a successful request stores what these inputs give
\* on their own, so two requests with equal inputs have equal results.
C24_ResultDependsOnlyOnInputs ==
    [][OutputStep =>
         LET output == active_outputs'[reply'.reactor]
         IN  \A u \in Users :
                 /\ output.corrections = RequestAlone(u, output).corrections
                 /\ output.final_temps = RequestAlone(u, output).final_temps]_vars

\* A request has been answered while the output of an earlier request, for
\* another reactor, is in the store.
C24_Witness ==
    /\ reply.kind = "output"
    /\ Has(active_outputs, reply.reactor)
    /\ \E other \in DOMAIN active_outputs : other # reply.reactor

\* The output that the request `text` of user u for reactor_id stores when
\* the store holds no output of any other reactor (the bot's requests always
\* have ranges, so that `success`, the optimizer's convergence, plays no
\* part).
StoredAlone(u, text, reactor_id, success) ==
    handle_temperatures(u, text, user_data[u], reactor_id,
                        Keep(active_outputs, {reactor_id}), user_ranges,
                        reactor_specific_ranges, env, success)

\* The temperatures that the request `text` of user u for reactor_id asks
\* for: what parse_temperatures makes of it.
RequestTemps(u, text, reactor_id) ==
    LET editing_mode == Has(user_data[u], "editing_reactor")
        parsed == parse_temperatures(
                      text, editing_mode,
                      IF editing_mode /\ Has(active_outputs, reactor_id)
                      THEN <<active_outputs[reactor_id].temps.target_temps[1]>>
                      ELSE <<>>)
    IN  IF parsed.ok
        THEN [current |-> parsed.current_temps, target_temps |-> parsed.target_temps]
        ELSE [current |-> <<>>, target_temps |-> <<>>]

C26_FinishRemovesOnlyThatReactor ==
    [][reply'.kind = "finished" =>
         /\ Has(active_outputs, reply'.reactor)
         /\ DOMAIN active_outputs' = DOMAIN active_outputs \ {reply'.reactor}
         /\ \A other \in DOMAIN active_outputs' :
                active_outputs'[other] = active_outputs[other]
         /\ user_ranges' = user_ranges
         /\ reactor_specific_ranges' = reactor_specific_ranges]_vars

\* An output has been finished while another reactor has one.
C26_Witness ==
    /\ reply.kind = "finished"
    /\ \E other \in DOMAIN active_outputs : other # reply.reactor

\* The step is the rejection of an input: a reactor number that is not
\* valid, temperatures or ranges with a token that is no number or with the
\* wrong count of values.
RejectedInputStep ==
    \/ reply'.kind \in {"reactor rejected", "range rejected", "ranges rejected"}
    \/ reply'.kind = "temperatures rejected" /\ reply'.error \in {"format", "count"}

\* C28: after an input is rejected in a state that expects input (reactor
\* number, temperatures, the range of one zone, the ranges of all zones, the
\* ranges of a reactor), the session is in the same state, with its mode and
\* reactor as they were, so that the next message is taken as a retry.
C28_RejectedInputKeepsState ==
    [][RejectedInputStep =>
         LET before == user_data[reply'.user]
             after == user_data'[reply'.user]
         IN  /\ Awaited(before) # "none"
             /\ Awaited(after) = Awaited(before)
             /\ \A key \in {"mode", "current_reactor", "editing_reactor",
                             "setting_reactor_ranges", "editing_range"} :
                    Get(after, key) = Get(before, key)]_vars

\* C29: temperatures entered for an edit only update an existing output: when
\* the reactor's output was finished after the edit was requested and before
\* the temperatures arrive, they store no output for that reactor.
C29_EditOnlyUpdatesExistingOutput ==
    [][\A r \in ReactorIds :
          (/\ Get(user_data[reply'.user], "editing_reactor") = r
           /\ reply'.kind \in {"output", "temperatures rejected"}
           /\ ~Has(active_outputs, r)) => ~Has(active_outputs', r)]_vars

\* C30: every key of the active-output store is the database ID of a
\* reactor that was validated in a reactor-number entry: no output is ever
\* stored under a missing (None) or unvalidated reactor.
C30_OutputKeysAreValidatedReactors ==
    \A key \in DOMAIN active_outputs :
        /\ key # None
        /\ key \in DOMAIN REACTORS_DB
        /\ active_outputs[key].message.reactor_id = key

\* The step is a main-menu command that its handler answered.
MenuStep ==
    reply'.kind \in {"enter reactor number", "active outputs", "ranges",
                     "instructions"}

\* C31: a main-menu command discards every input-expecting flag set before
\* it (the waiting state, the zone whose range is edited, the reactor edited,
\* the reactor whose ranges are set), keeps the session's mode and current
\* reactor, and changes no active output and no range store.
C31_MenuCommandResetsFlagsOnly ==
    [][MenuStep =>
         LET before == user_data[reply'.user]
             after == user_data'[reply'.user]
         IN  /\ ~Has(after, "editing_range")
             /\ ~Has(after, "editing_reactor")
             /\ ~Has(after, "setting_reactor_ranges")
             /\ IF reply'.kind = "enter reactor number"
                THEN Get(after, "state") = "waiting_reactor_number"
                ELSE ~Has(after, "state")
             /\ Get(after, "mode") = Get(before, "mode")
             /\ Get(after, "current_reactor") = Get(before, "current_reactor")
             /\ active_outputs' = active_outputs
             /\ user_ranges' = user_ranges
             /\ reactor_specific_ranges' = reactor_specific_ranges]_vars

\* C34: every computation started through handle_temperatures has a
\* non-empty working range in effect and is solved by Strategy B: the ranges
\* resolved for the request are not empty, the reactor set up with them
\* takes the range-aware solve, and no request ends in the failure that only
\* the unconstrained optimizer (Strategy A) has.
C34_RequestsSolvedByStrategyB ==
    [][/\ OutputStep =>
            LET output == active_outputs'[reply'.reactor]
                res == resolve_ranges(reply'.user, reply'.reactor, user_ranges,
                                      reactor_specific_ranges)
            IN  /\ res.ranges # NoRanges
                /\ set_temperatures(
                       ThermalReactor(output.mode,
                                      [x \in {reply'.user} |-> res.ranges], env),
                       output.temps.current, output.temps.target_temps,
                       reply'.user).user_ranges # NoRanges
                /\ RequestAlone(reply'.user, output).strategy = "B"
       /\ RejectedStep => reply'.error # "not converged"]_vars

\* A request has been computed with the ranges that stand in when the user
\* has set none.
C34_Witness ==
    /\ reply.kind = "output"
    /\ Has(active_outputs, reply.reactor)
    /\ active_outputs[reply.reactor].message.ranges_info = "default"

\* The user who has just chosen a reactor after "New output" sends
\* temperatures that parse: four or six values.
TemperaturesAfterNewOutput ==
    /\ reply.kind = "reactor chosen"
    /\ reply'.user = reply.user
    /\ reply'.kind \in {"output", "temperatures rejected"}
    /\ reply'.error \notin {"format", "count"}

\* C35: the "New output" command, then a valid number of a reactor with no
\* active output, then a valid input of four or six temperatures, ends with
\* an output stored for that reactor and the user no longer asked for
\* temperatures.
C35_NewOutputEndsWithStoredOutput ==
    [][TemperaturesAfterNewOutput =>
          /\ reply'.kind = "output"
          /\ reply'.reactor = reply.reactor
          /\ Has(active_outputs', reply.reactor)
          /\ Awaited(user_data'[reply.user]) # "temperatures"]_vars

(***************************************************************************)
(* Properties of the bot from the reactor's ranges on (SpecRanges).        *)
(***************************************************************************)

\* User u has ranges of its own for the reactor in the store d.
HasReactorRanges(d, u, reactor_id) == Has(d, u) /\ Has(d[u], reactor_id)

\* The step is the deletion of the ranges of a reactor: the handler went on
\* to show_ranges for the reactor it deleted.
DeleteStep ==
    /\ reply'.kind = "exception"
    /\ reply'.error = "show_ranges"
    /\ reply'.reactor \in ReactorIds

\* C27: after a user deletes the ranges of a reactor, the next computation
\* for that user and reactor uses the user's global ranges, or the defaults
\* when the user has none, never the deleted ranges.  The deletion removes
\* the entry; only that user's setting of ranges for that reactor brings an
\* entry back; and a request made while there is no entry is computed with,
\* and prints, the global ranges or the defaults.
C27_DeletedRangesNotUsed ==
    [][/\ DeleteStep =>
            ~HasReactorRanges(reactor_specific_ranges', reply'.user, reply'.reactor)
       /\ \A u \in Users, r \in ReactorIds :
            (/\ HasReactorRanges(reactor_specific_ranges', u, r)
             /\ ~HasReactorRanges(reactor_specific_ranges, u, r)) =>
                /\ reply'.kind = "reactor ranges set"
                /\ reply'.user = u
                /\ reply'.reactor = r
       /\ (/\ OutputStep
           /\ ~HasReactorRanges(reactor_specific_ranges, reply'.user, reply'.reactor)) =>
              LET output == active_outputs'[reply'.reactor]
                  global == IF Has(user_ranges, reply'.user)
                               /\ DOMAIN user_ranges[reply'.user] # {}
                            THEN user_ranges[reply'.user]
                            ELSE DefaultRangesDict
              IN  /\ output.message.ranges_info \in {"global", "default"}
                  /\ output.message.ranges = global
                  /\ output.corrections =
                         RequestAlone(reply'.user,
                                      [output EXCEPT !.message.ranges = global])
                             .corrections]_vars

\* User 1, who had ranges for reactor 1-1, has none after deleting them, and
\* a request of user 1 for reactor 1-1 has been answered with ranges other
\* than the deleted ones.
C27_Witness ==
    /\ ~HasReactorRanges(reactor_specific_ranges, 1, "1-1")
    /\ reply.kind = "output"
    /\ reply.user = 1
    /\ reply.reactor = "1-1"
    /\ active_outputs["1-1"].message.ranges # RangesOfReactor

(***************************************************************************)
(* Properties of the solver (SpecSolve): the desired targets.              *)
(***************************************************************************)

\* C32: under Strategy B the desired target resolved for each zone lies
\* within that zone's band [target + min_offset, target + max_offset], for
\* every range, including ranges whose width is no multiple of 0.5.
C32_DesiredTargetWithinBand ==
    SolvedB =>
        \A i \in 1..3 :
            LET range == reactor.user_ranges[ZoneNames[i]]
                target == reactor.TARGET_TEMPS[i]
            IN  /\ result.targets[i] >= target + RangeLower(range)
                /\ result.targets[i] <= target + RangeUpper(range)

(***************************************************************************)
(* Properties of the bot started anew (SpecRestart).                       *)
(***************************************************************************)

\* C33: whenever the user-global range store has an entry for a user, the
\* entry defines a range for each of the zones B, C and D, so that no
\* computation resolved from it fails on a missing zone.
C33_GlobalEntryHasThreeZones ==
    /\ \A u \in DOMAIN user_ranges : DOMAIN user_ranges[u] = ZoneSet
    /\ reply.kind = "temperatures rejected" => reply.error # "KeyError"

=============================================================================
